---- MODULE Spec2Model ----
(***************************************************************************)
(* LangHuan schema engine: the HTTP client's domain allow-list, the        *)
(* session wrapper (CommandWithSession), the paginator (PageItems) and the *)
(* header parser (info_parser + SchemaInfo::from_str).                     *)
(*                                                                         *)
(* Option<T> is a tuple: None is <<>>, Some(x) is <<x>>.                   *)
(* Result<T> is a record: [ok |-> TRUE, v |-> x] or [ok |-> FALSE, err].   *)
(***************************************************************************)
EXTENDS Integers, Sequences, FiniteSets, TLC

None == <<>>
Some(x) == <<x>>
IsSome(o) == o # <<>>
Unwrap(o) == o[1]
Ok(x) == [ok |-> TRUE, v |-> x]
Err(e) == [ok |-> FALSE, err |-> e]

(***************************************************************************)
(* Bounds of the engine model.                                             *)
(***************************************************************************)
\* next_page calls made on one PageItems sequence
MaxCalls == 3
\* load calls made on one Runtime
MaxLoads == 2
\* require calls and assignments made by the scripts of one Runtime
MaxSteps == 3
\* legal-domains lines of a header
MaxDomainLines == 3
\* spaces written wherever the header syntax allows optional spaces
MaxPad == 1

(***************************************************************************)
(* Inputs: hosts, response bodies, session tokens, script behaviours.      *)
(***************************************************************************)
\* host names that reqwest::Url reports as a domain
Domains == {"a.com", "www.a.com", "b.com"}
\* a host given as an IP address: the URL parses, Url::domain() is None
IpHost == "10.0.0.1"
\* a URL string that reqwest::Url::parse rejects
BadHost == "::bad::"
Hosts == Domains \cup {IpHost, BadHost}
\* the allow-lists a client is constructed with
AllowLists == {{}, {"a.com"}, {"b.com"}, {"a.com", "b.com"}, {"www.a.com"}}
\* the pairs (subdomain, parent domain) among the hosts
SubdomainPairs == {<<"www.a.com", "a.com">>}
\* raw response bodies
Texts == {"t1", "t2"}
\* session values produced by the session command's parse
Sessions == {"s1", "tbl"}
\* "s1" is a Lua string; "tbl" is a Lua table, a value that is a reference:
\* the content of the table it refers to, as the session parse built it
SessionTableNew == [token |-> "s1", used |-> FALSE]
\* the script's page callable, by behaviour
PageKinds == {"first_only", "always", "while_more", "if_no_prev", "throws", "throws_at_2"}
\* the script's parse callable, by behaviour
ParseKinds == {"producer", "throws_on_t2"}
\* the script's session wrap callable, by behaviour
WrapKinds == {"append", "identity", "bare_url", "to_b", "nil", "throws", "marks"}

(***************************************************************************)
(* HttpRequest (http.rs 50-59) and its Lua conversions (schema.rs 22-45).  *)
(* A URL is a record of its host and its query parts.                      *)
(***************************************************************************)
NoHeaders == <<>>
Url(host) == [host |-> host, query |-> <<>>]
HttpRequest(url, method, headers, body) ==
    [url |-> url, method |-> method, headers |-> headers, body |-> body]

\* Lua values crossing the boundary: nil, a string, or a table (a function
\* from its keys to values)
LuaNil == [t |-> "nil"]
LuaString(s) == [t |-> "string", s |-> s]
LuaTable(f) == [t |-> "table", f |-> f]
LuaFunction(name) == [t |-> "function", name |-> name]
LuaUserData(package, id) == [t |-> "userdata", package |-> package, id |-> id]
\* Table::get: the value at a key, nil when the table has no such key
TableGet(table, key) == IF key \in DOMAIN table THEN table[key] ELSE LuaNil

\* IntoLua for HttpRequest: serde serialization of all four fields
IntoLua(request) ==
    LuaTable([k \in {"url", "method", "headers", "body"} |->
                CASE k = "url" -> request.url
                  [] k = "method" -> request.method
                  [] k = "headers" -> request.headers
                  [] k = "body" -> request.body])

\* a variant that deserializes a table only when it has all four fields
FromLuaWithoutDefaults(value) ==
    IF value.t = "string"
    THEN Ok(HttpRequest(value.s, "GET", NoHeaders, <<>>))
    ELSE IF value.t = "table" /\ DOMAIN value.f = {"url", "method", "headers", "body"}
    THEN Ok(HttpRequest(value.f["url"], value.f["method"], value.f["headers"], value.f["body"]))
    ELSE Err("LuaError")

\* FromLua for HttpRequest: a bare string is the URL with defaults; a table is
\* deserialized with url required and method, headers, body defaulted
FromLua(value) ==
    IF value.t = "string"
    THEN Ok(HttpRequest(value.s, "GET", NoHeaders, <<>>))
    ELSE IF value.t = "table" /\ "url" \in DOMAIN value.f
    THEN Ok(HttpRequest(value.f["url"],
                        IF "method" \in DOMAIN value.f THEN value.f["method"] ELSE "GET",
                        IF "headers" \in DOMAIN value.f THEN value.f["headers"] ELSE NoHeaders,
                        IF "body" \in DOMAIN value.f THEN value.f["body"] ELSE <<>>))
    ELSE Err("LuaError")

\* FromLua for Option<HttpRequest>: nil is None
FromLuaOption(value) ==
    IF value.t = "nil" THEN Ok(None)
    ELSE LET r == FromLua(value) IN IF r.ok THEN Ok(Some(r.v)) ELSE r

(***************************************************************************)
(* Script callables (inputs of the engine, chosen at load).                *)
(***************************************************************************)
\* page(id, page, content) of a list command: a Lua value or a thrown error
ScriptPage(kind, host, page, content) ==
    LET req == Ok(LuaString(Url(host))) IN
    CASE kind = "first_only" -> IF page = 1 THEN req ELSE Ok(LuaNil)
      [] kind = "always" -> req
      [] kind = "while_more" -> IF content = None \/ content = Some("t1") THEN req ELSE Ok(LuaNil)
      [] kind = "if_no_prev" -> IF content = None THEN req ELSE Ok(LuaNil)
      [] kind = "throws" -> Err("LuaError")
      [] kind = "throws_at_2" -> IF page = 2 THEN Err("LuaError") ELSE req

\* parse(content) of a list command: returns the item producer or throws
ScriptParse(kind, content) ==
    IF kind = "throws_on_t2" /\ content = "t2" THEN Err("LuaError") ELSE Ok("producer")

\* wrap(request, session): a Lua value or a thrown error
ScriptWrap(kind, request, session) ==
    CASE kind = "append" ->
           Ok(LuaTable([request.f EXCEPT
                 !["url"] = [@ EXCEPT !.query = Append(@, <<"session", session>>)],
                 !["headers"] = ("User-Agent" :> session)]))
      [] kind = "identity" -> Ok(request)
      [] kind = "bare_url" -> Ok(LuaString(request.f["url"]))
      [] kind = "to_b" -> Ok(LuaTable([request.f EXCEPT !["url"] = Url("b.com")]))
      [] kind = "nil" -> Ok(LuaNil)
      [] kind = "throws" -> Err("LuaError")
      \* session.used = true, then the request as it is; a string has no fields
      [] kind = "marks" -> IF session = "tbl" THEN Ok(request) ELSE Err("LuaError")

\* the session value a wrap call is given: session.clone() (schema.rs 273)
\* of a string is the string, of a table the reference to the same table
SessionSeen(session, table) ==
    IF session = "tbl" THEN LuaTable(table) ELSE LuaString(session)
\* what the wrap calls of one page call leave in the session's table
WrapEffect(session_command, wraps, table) ==
    IF wraps # <<>> /\ session_command = Some("marks") /\ wraps[1].session = "tbl"
    THEN [table EXCEPT !.used = TRUE]
    ELSE table

(***************************************************************************)
(* Header parser (schema/info_parser.rs).  Text is a sequence of           *)
(* one-character strings; a parser returns Ok([rest, out]) or Err(kind).   *)
(***************************************************************************)
LF == "\n"
CR == "\r"
SpaceChars == {" ", "\t"}
Digits == {"0", "1", "2", "3", "4", "5", "6", "7", "8", "9"}
LowerHex == {"a", "b", "c", "d", "e", "f"}
UpperHex == {"A", "B", "C", "D", "E", "F"}
Letters == LowerHex \cup UpperHex \cup
           {"g", "h", "i", "l", "m", "n", "o", "p", "r", "s", "t", "u", "v", "x", "y"}
\* char::is_alphanumeric, on the characters used here
IsAlphanumeric(c) == c \in Letters \cup Digits
\* every character a text of the model is made of
AllChars == Letters \cup Digits \cup SpaceChars \cup {LF, CR, "-", "@", ":", "_", ".", "{", "}"}

Drop(input, n) == SubSeq(input, n + 1, Len(input))
Take(input, n) == SubSeq(input, 1, n)
\* a parser's success: the first n characters matched, the others remain
SplitAt(input, n) == Ok([rest |-> Drop(input, n), out |-> Take(input, n)])
\* the ? operator: go on with the value of a success, return a failure
Then(r, P(_)) == IF r.ok THEN P(r.v) ELSE r

\* the index of the last character of the longest run of characters of
\* input, read from index i, that all belong to keep
RECURSIVE ScanWhile(_, _, _)
ScanWhile(input, i, keep) ==
    IF i > Len(input) \/ input[i] \notin keep THEN i - 1 ELSE ScanWhile(input, i + 1, keep)

\* nom tag(t)
Tag(t, input) ==
    IF Len(input) >= Len(t) /\ Take(input, Len(t)) = t
    THEN SplitAt(input, Len(t))
    ELSE Err("Tag")

\* nom space0: spaces and tabs, possibly none
Space0(input) == SplitAt(input, ScanWhile(input, 1, SpaceChars))

\* nom line_ending: "\n" or "\r\n"
LineEnding(input) ==
    IF Len(input) >= 1 /\ input[1] = LF THEN SplitAt(input, 1)
    ELSE IF Len(input) >= 2 /\ input[1] = CR /\ input[2] = LF THEN SplitAt(input, 2)
    ELSE Err("CrLf")

\* nom not_line_ending: up to the first "\n" or "\r\n"; a lone "\r" is an error
NotLineEndingAt(input, n) ==
    IF n < Len(input) /\ input[n + 1] = CR /\ ~(n + 2 <= Len(input) /\ input[n + 2] = LF)
    THEN Err("Tag")
    ELSE SplitAt(input, n)
NotLineEnding(input) == NotLineEndingAt(input, ScanWhile(input, 1, AllChars \ {LF, CR}))

\* str::trim, on the white space used here
WhiteChars == SpaceChars \cup {LF, CR}
TrimEnd(value) ==
    Take(value, CHOOSE n \in 0 .. Len(value) :
                  /\ \A k \in (n + 1) .. Len(value) : value[k] \in WhiteChars
                  /\ (n = 0 \/ value[n] \notin WhiteChars))
Trim(value) == TrimEnd(Drop(value, ScanWhile(value, 1, WhiteChars)))

\* match_allowed_name (info_parser.rs 9-11): take_while1
NameChars == {c \in AllChars : IsAlphanumeric(c) \/ c = "_" \/ c = "." \/ c = "-"}
TakeWhile1(input, n) == IF n = 0 THEN Err("TakeWhile1") ELSE SplitAt(input, n)
match_allowed_name(input) == TakeWhile1(input, ScanWhile(input, 1, NameChars))

\* parse_field_name (info_parser.rs 13-19)
parse_field_name(input) ==
    Then(Tag(<<"-", "-">>, input), LAMBDA a :
    Then(Space0(a.rest), LAMBDA b :
    Then(Tag(<<"@">>, b.rest), LAMBDA c :
    match_allowed_name(c.rest))))

\* a variant for which the end of the input ends a value as a line ending does
FieldValueToEof(input) ==
    Then(NotLineEnding(input), LAMBDA a :
    IF a.rest = <<>> THEN Ok([rest |-> <<>>, out |-> Trim(a.out)])
    ELSE Then(LineEnding(a.rest), LAMBDA b :
         Ok([rest |-> b.rest, out |-> Trim(a.out)])))

\* parse_field_value (info_parser.rs 21-25)
parse_field_value(input) ==
    Then(NotLineEnding(input), LAMBDA a :
    Then(LineEnding(a.rest), LAMBDA b :
    Ok([rest |-> b.rest, out |-> Trim(a.out)])))

\* parse_field (info_parser.rs 27-34)
parse_field(input) ==
    Then(parse_field_name(input), LAMBDA a :
    Then(Space0(a.rest), LAMBDA b :
    Then(Tag(<<":">>, b.rest), LAMBDA c :
    Then(Space0(c.rest), LAMBDA d :
    Then(parse_field_value(d.rest), LAMBDA e :
    Ok([rest |-> e.rest, out |-> [name |-> a.out, value |-> e.out]]))))))

\* parse_whitespace_line (info_parser.rs 37-41)
parse_whitespace_line(input) ==
    Then(Space0(input), LAMBDA a :
    Then(LineEnding(a.rest), LAMBDA b :
    Ok([rest |-> b.rest, out |-> <<>>])))

\* parse_line (info_parser.rs 43-49): Line::Whitespace or Line::Field
LineAfter(w, input) ==
    IF w.ok THEN Ok([rest |-> w.v.rest, out |-> [line |-> "Whitespace"]])
    ELSE Then(parse_field(input), LAMBDA f :
         Ok([rest |-> f.rest, out |-> [line |-> "Field", field |-> f.out]]))
parse_line(input) == LineAfter(parse_whitespace_line(input), input)

\* FieldIter::next (info_parser.rs 66-87): the iterator's new input and the
\* item it yields (None ends the iteration)
ItemOf(r, input) ==
    IF ~r.ok THEN [input |-> input, item |-> Some(Err(<<"nom", r.err>>))]
    ELSE IF r.v.out.line = "Field"
    THEN [input |-> r.v.rest, item |-> Some(Ok(r.v.out.field))]
    ELSE [input |-> r.v.rest, item |-> None]
FieldIterNext(input) ==
    IF input = <<>> THEN [input |-> input, item |-> None]
    ELSE ItemOf(parse_line(input), input)

(***************************************************************************)
(* SchemaInfo::from_str (schema.rs 155-210).                               *)
(***************************************************************************)
N_id == <<"i", "d">>
N_name == <<"n", "a", "m", "e">>
N_author == <<"a", "u", "t", "h", "o", "r">>
N_description == <<"d", "e", "s", "c", "r", "i", "p", "t", "i", "o", "n">>
N_lh_version == <<"l", "h", "-", "v", "e", "r", "s", "i", "o", "n">>
N_legal_domains == <<"l", "e", "g", "a", "l", "-", "d", "o", "m", "a", "i", "n", "s">>

\* Error::ScriptParseError(String): the message is a kind and the text that
\* follows it ("missing field: <name>", "unknown field in the script: <name>",
\* the uuid crate's message, nom's message)
ScriptParseError(kind, text) == [variant |-> "ScriptParseError", kind |-> kind, text |-> text]

\* uuid::Uuid::parse_str: 32 hex digits, alone, hyphenated 8-4-4-4-12, hyphenated
\* in braces, or hyphenated after "urn:uuid:"; the value is the 32 digits,
\* letter case folded
HyphenAt == {9, 14, 19, 24}
UrnPrefix == <<"u", "r", "n", ":", "u", "u", "i", "d", ":">>
HexChars == Digits \cup LowerHex \cup UpperHex
FoldHex(c) ==
    CASE c = "A" -> "a" [] c = "B" -> "b" [] c = "C" -> "c"
      [] c = "D" -> "d" [] c = "E" -> "e" [] c = "F" -> "f" [] OTHER -> c
\* the k-th digit of a hyphenated text
HyphenatedDigit(text, k) == text[k + Cardinality({d \in {8, 12, 16, 20} : d < k})]
UuidSimple(text) ==
    IF Len(text) = 32 /\ \A k \in 1 .. 32 : text[k] \in HexChars
    THEN Ok([k \in 1 .. 32 |-> FoldHex(text[k])])
    ELSE Err("uuid")
UuidHyphenatedForm(text) ==
    IF /\ Len(text) = 36
       /\ \A k \in 1 .. 36 : IF k \in HyphenAt THEN text[k] = "-" ELSE text[k] \in HexChars
    THEN Ok([k \in 1 .. 32 |-> FoldHex(HyphenatedDigit(text, k))])
    ELSE Err("uuid")
\* a variant that reads the 32-digit form only
UuidParseSimpleOnly(text) == UuidSimple(text)
UuidParse(text) ==
    IF Len(text) = 32 THEN UuidSimple(text)
    ELSE IF Len(text) = 38 /\ text[1] = "{" /\ text[38] = "}"
    THEN UuidHyphenatedForm(SubSeq(text, 2, 37))
    ELSE IF Len(text) = 45 /\ Take(text, 9) = UrnPrefix
    THEN UuidHyphenatedForm(Drop(text, 9))
    ELSE UuidHyphenatedForm(text)

\* the locals of from_str before the loop (schema.rs 159-164)
NoFields ==
    [id |-> None, name |-> None, author |-> None, description |-> None,
     lh_version |-> None, legal_domains |-> {}]

\* a variant that ignores a field it does not know
MatchIgnoringUnknown(loc, line) ==
    CASE line.name = N_id -> Ok([loc EXCEPT !.id = Some(line.value)])
      [] line.name = N_name -> Ok([loc EXCEPT !.name = Some(line.value)])
      [] line.name = N_author -> Ok([loc EXCEPT !.author = Some(line.value)])
      [] line.name = N_description -> Ok([loc EXCEPT !.description = Some(line.value)])
      [] line.name = N_lh_version -> Ok([loc EXCEPT !.lh_version = Some(line.value)])
      [] line.name = N_legal_domains ->
           Ok([loc EXCEPT !.legal_domains = @ \cup {line.value}])
      [] OTHER -> Ok(loc)

\* a variant that keeps the first value of a field and drops the later ones
MatchKeepingFirst(loc, line) ==
    CASE line.name = N_id -> Ok(IF loc.id = None THEN [loc EXCEPT !.id = Some(line.value)] ELSE loc)
      [] line.name = N_name ->
           Ok(IF loc.name = None THEN [loc EXCEPT !.name = Some(line.value)] ELSE loc)
      [] line.name = N_author -> Ok([loc EXCEPT !.author = Some(line.value)])
      [] line.name = N_description -> Ok([loc EXCEPT !.description = Some(line.value)])
      [] line.name = N_lh_version -> Ok([loc EXCEPT !.lh_version = Some(line.value)])
      [] line.name = N_legal_domains ->
           Ok([loc EXCEPT !.legal_domains = @ \cup {line.value}])
      [] OTHER -> Err(ScriptParseError("unknown field in the script", line.name))

\* the match of the loop body (schema.rs 167-182)
MatchField(loc, line) ==
    CASE line.name = N_id -> Ok([loc EXCEPT !.id = Some(line.value)])
      [] line.name = N_name -> Ok([loc EXCEPT !.name = Some(line.value)])
      [] line.name = N_author -> Ok([loc EXCEPT !.author = Some(line.value)])
      [] line.name = N_description -> Ok([loc EXCEPT !.description = Some(line.value)])
      [] line.name = N_lh_version -> Ok([loc EXCEPT !.lh_version = Some(line.value)])
      [] line.name = N_legal_domains ->
           Ok([loc EXCEPT !.legal_domains = @ \cup {line.value}])
      [] OTHER -> Err(ScriptParseError("unknown field in the script", line.name))

\* map_err(|e| ScriptParseError(e.to_string())) (schema.rs 189)
UuidError(r) == IF r.ok THEN r ELSE Err(ScriptParseError(r.err, <<>>))
\* a variant that takes the id as it is written
IdAsWritten(loc) ==
    IF loc.id = None THEN Err(ScriptParseError("missing field", N_id))
    ELSE Ok(Unwrap(loc.id))
\* id.ok_or_else(missing).and_then(Uuid::parse_str) (schema.rs 185-190)
IdOf(loc) ==
    IF loc.id = None THEN Err(ScriptParseError("missing field", N_id))
    ELSE UuidError(UuidParse(Unwrap(loc.id)))

\* field.ok_or_else(missing) (schema.rs 191-206)
Require(loc, fname) ==
    IF loc[fname] = None
    THEN Err(ScriptParseError("missing field",
               CASE fname = "name" -> N_name [] fname = "author" -> N_author
                 [] fname = "description" -> N_description [] fname = "lh_version" -> N_lh_version))
    ELSE Ok(Unwrap(loc[fname]))

\* a variant in which a missing version is an empty version
BuildDefaultVersion(loc) ==
    Then(IdOf(loc), LAMBDA id :
    Then(Require(loc, "name"), LAMBDA name :
    Then(Require(loc, "author"), LAMBDA author :
    Then(Require(loc, "description"), LAMBDA description :
    Ok([id |-> id, name |-> name, author |-> author, description |-> description,
        lh_version |-> IF loc.lh_version = None THEN <<>> ELSE Unwrap(loc.lh_version),
        legal_domains |-> loc.legal_domains])))))

\* the construction after the loop (schema.rs 184-208): the fields are
\* required in this order, the id being parsed as soon as it is found present
BuildSchemaInfo(loc) ==
    Then(IdOf(loc), LAMBDA id :
    Then(Require(loc, "name"), LAMBDA name :
    Then(Require(loc, "author"), LAMBDA author :
    Then(Require(loc, "description"), LAMBDA description :
    Then(Require(loc, "lh_version"), LAMBDA lh_version :
    Ok([id |-> id, name |-> name, author |-> author, description |-> description,
        lh_version |-> lh_version, legal_domains |-> loc.legal_domains]))))))

\* the loop of from_str (schema.rs 165-183) and the construction: the value
\* is the result, with the iterator's input when from_str returns and the
\* fields the iterator yielded
RECURSIVE FromStrLoop(_, _, _)
RECURSIVE LoopOnItem(_, _, _)
RECURSIVE LoopOnLine(_, _, _, _)
RECURSIVE LoopOnMatch(_, _, _)
\* after the match of the loop body
LoopOnMatch(m, rest, seen) ==
    IF ~m.ok THEN [result |-> m, rest |-> rest, fields |-> seen]
    ELSE FromStrLoop(rest, m.v, seen)
\* let line = line? and the loop body
LoopOnLine(line, rest, loc, seen) ==
    IF ~line.ok
    THEN [result |-> Err(ScriptParseError(line.err[1], <<>>)), rest |-> rest, fields |-> seen]
    ELSE LoopOnMatch(MatchField(loc, line.v), rest, Append(seen, line.v))
\* a variant that reads on after a blank line, to the end of the input
LoopPastBlank(step, loc, seen) ==
    IF step.item = None
    THEN IF step.input = <<>>
         THEN [result |-> BuildSchemaInfo(loc), rest |-> step.input, fields |-> seen]
         ELSE FromStrLoop(step.input, loc, seen)
    ELSE LoopOnLine(Unwrap(step.item), step.input, loc, seen)
\* the iterator's answer: the end of the loop, or an item
LoopOnItem(step, loc, seen) ==
    IF step.item = None
    THEN [result |-> BuildSchemaInfo(loc), rest |-> step.input, fields |-> seen]
    ELSE LoopOnLine(Unwrap(step.item), step.input, loc, seen)
FromStrLoop(input, loc, seen) == LoopOnItem(FieldIterNext(input), loc, seen)

SchemaInfoFromStr(text) == FromStrLoop(text, NoFields, <<>>)

(***************************************************************************)
(* HttpClient::request (http.rs 74-98), up to the point where it sends.    *)
(***************************************************************************)
\* reqwest::Url::parse followed by Url::domain
UrlParse(url) ==
    IF url.host = BadHost THEN Err("parse")
    ELSE Ok([domain |-> IF url.host = IpHost THEN None ELSE Some(url.host)])

\* a variant that tests the allow-list only when the list is not empty
CheckSkippingEmptyList(allowed, request) ==
    LET url == UrlParse(request.url) IN
    IF ~url.ok THEN "InvalidUrl"
    ELSE IF IsSome(url.v.domain)
    THEN IF allowed # {} /\ Unwrap(url.v.domain) \notin allowed
         THEN "NotAllowedDomain" ELSE "send"
    ELSE "InvalidUrl"

\* a variant that takes the host of a URL without a domain as its domain
CheckTakingHostAsDomain(allowed, request) ==
    LET url == UrlParse(request.url) IN
    IF ~url.ok THEN "InvalidUrl"
    ELSE IF request.url.host \notin allowed THEN "NotAllowedDomain"
    ELSE "send"

\* a variant that lets the subdomains of an allowed domain through
CheckAllowingSubdomains(allowed, request) ==
    LET url == UrlParse(request.url) IN
    IF ~url.ok THEN "InvalidUrl"
    ELSE IF IsSome(url.v.domain)
    THEN IF Unwrap(url.v.domain) \notin allowed
            /\ ~\E d \in allowed : <<Unwrap(url.v.domain), d>> \in SubdomainPairs
         THEN "NotAllowedDomain" ELSE "send"
    ELSE "InvalidUrl"

\* the decision taken before any network call: "send", or the failure returned
HttpClientCheck(allowed, request) ==
    LET url == UrlParse(request.url) IN
    IF ~url.ok THEN "InvalidUrl"
    ELSE IF IsSome(url.v.domain)
    THEN IF Unwrap(url.v.domain) \notin allowed THEN "NotAllowedDomain" ELSE "send"
    ELSE "InvalidUrl"

(***************************************************************************)
(* CommandWithSession::page (schema.rs 269-278) over a list command.       *)
(* The value is a record of everything the call did: the base command's    *)
(* result, the wrap invocations it made and the result it returns.         *)
(***************************************************************************)
\* a variant that keeps the URL of the request it was given
SessionWrapKeepingUrl(kind, request, session) ==
    LET arg == IntoLua(request)
        ret == ScriptWrap(kind, arg, session)
        got == IF ret.ok THEN FromLua(ret.v) ELSE Err(ret.err)
    IN [arg |-> arg, session |-> session, ret |-> ret,
        result |-> IF got.ok THEN Ok([got.v EXCEPT !.url = request.url]) ELSE got]
\* SessionCommand::wrap: one call of the script's wrap with (request, session)
SessionWrap(kind, request, session) ==
    LET arg == IntoLua(request)
        ret == ScriptWrap(kind, arg, session)
    IN [arg |-> arg, session |-> session, ret |-> ret,
        result |-> IF ret.ok THEN FromLua(ret.v) ELSE Err(ret.err)]

\* the closure passed to CommandRequest::wrap
WrapWanted(session_command, session) == IsSome(session_command) /\ IsSome(session)

\* TocCommand::page / SearchCommand::page: call the script, convert the value
ListCommandPage(script, page, content) ==
    LET ret == ScriptPage(script.page, script.host, page, content) IN
    IF ret.ok THEN FromLuaOption(ret.v) ELSE Err(ret.err)

\* a variant that goes on with the unwrapped request when wrap fails
SessionMapFallingBack(request, session_command, session) ==
    IF WrapWanted(session_command, session)
    THEN LET w == SessionWrap(Unwrap(session_command), request, Unwrap(session)) IN
         [wraps |-> <<w>>, result |-> IF w.result.ok THEN w.result ELSE Ok(request)]
    ELSE [wraps |-> <<>>, result |-> Ok(request)]

\* the closure of CommandWithSession::page (schema.rs 271-277)
SessionMap(request, session_command, session) ==
    IF WrapWanted(session_command, session)
    THEN LET w == SessionWrap(Unwrap(session_command), request, Unwrap(session)) IN
         [wraps |-> <<w>>, result |-> w.result]
    ELSE [wraps |-> <<>>, result |-> Ok(request)]

\* a variant that calls the closure on an empty request when there is none
OptionWrapOnNone(path, session_command, session) ==
    LET m == SessionMap(IF path = None THEN HttpRequest(Url(BadHost), "GET", NoHeaders, <<>>)
                        ELSE Unwrap(path), session_command, session) IN
    [wraps |-> m.wraps, result |-> IF m.result.ok THEN Ok(Some(m.result.v)) ELSE m.result]

\* impl CommandRequest for Option<HttpRequest> (schema.rs 62-72)
OptionWrap(path, session_command, session) ==
    IF path = None THEN [wraps |-> <<>>, result |-> Ok(None)]
    ELSE LET m == SessionMap(Unwrap(path), session_command, session) IN
         [wraps |-> m.wraps, result |-> IF m.result.ok THEN Ok(Some(m.result.v)) ELSE m.result]

\* a variant that calls wrap and then sends the base request all the same
PageDiscardingWrap(script, session_command, session, page, content) ==
    LET base == ListCommandPage(script, page, content) IN
    IF ~base.ok THEN [base |-> base, wraps |-> <<>>, result |-> base]
    ELSE [base |-> base, wraps |-> OptionWrap(base.v, session_command, session).wraps,
          result |-> base]

\* a variant that falls back on the base request when wrap fails
PageIgnoringWrapFault(script, session_command, session, page, content) ==
    LET base == ListCommandPage(script, page, content) IN
    IF ~base.ok THEN [base |-> base, wraps |-> <<>>, result |-> base]
    ELSE LET w == OptionWrap(base.v, session_command, session) IN
         [base |-> base, wraps |-> w.wraps, result |-> IF w.result.ok THEN w.result ELSE base]

CommandWithSessionPage(script, session_command, session, page, content) ==
    LET base == ListCommandPage(script, page, content) IN
    IF ~base.ok THEN [base |-> base, wraps |-> <<>>, result |-> base]
    ELSE LET w == OptionWrap(base.v, session_command, session) IN
         [base |-> base, wraps |-> w.wraps, result |-> w.result]


(***************************************************************************)
(* Runtime (runtime.rs): the capability registry, the environment of a     *)
(* load and its require.  The Lua state is a record of package.loaded (a   *)
(* table of the state's globals) and of the number of capability instances *)
(* constructed so far, which gives each instance its identity.             *)
(***************************************************************************)
P_json == <<"j", "s", "o", "n">>
P_url == <<"u", "r", "l">>
\* RUNTIME_PACKAGES (runtime.rs 12-23), both features enabled
RUNTIME_PACKAGES == {P_json, P_url}
\* the names scripts call require with: a registered capability, its name
\* without the prefix, and a capability that is not registered
RequireNames == {<<"@">> \o P_json, P_json, <<"@", "z", "i", "p">>}
\* the globals scripts try to assign
AssignKeys == {"require"}

\* mlua::Error::RuntimeError(format!("<kind>: <name>"))
RuntimeError(kind, name) == [variant |-> "LuaError", kind |-> kind, name |-> name]
\* any other mlua::Error (a thrown error, a failed conversion)
LuaError(kind) == [variant |-> "LuaError", kind |-> kind, name |-> <<>>]

\* Runtime::new (runtime.rs 37-41)
RuntimeNew == [loaded |-> <<>>, made |-> 0]

\* Runtime::get_predefined_package (runtime.rs 89-91)
get_predefined_package(name) == IF name \in RUNTIME_PACKAGES THEN Some(name) ELSE None

\* Package::create_instance (package.rs 38-40): a new userdata at each call
create_instance(package, lua) == LuaUserData(package, lua.made + 1)

\* str::starts_with('@')
StartsWithAt(name) == Len(name) >= 1 /\ name[1] = "@"

\* loaded.set(name, required.clone()) (runtime.rs 80)
LoadedSet(lua, name, required) ==
    [loaded |-> (name :> required) @@ lua.loaded, made |-> lua.made + 1]

\* a variant that caches the instance under the package's name
RequireStoringSuffix(name, lua) ==
    IF name \in DOMAIN lua.loaded THEN [result |-> Ok(lua.loaded[name]), lua |-> lua]
    ELSE IF ~StartsWithAt(name)
    THEN [result |-> Err(RuntimeError("invalid module name", name)), lua |-> lua]
    ELSE IF IsSome(get_predefined_package(Tail(name)))
    THEN [result |-> Ok(create_instance(Tail(name), lua)),
          lua |-> LoadedSet(lua, Tail(name), create_instance(Tail(name), lua))]
    ELSE [result |-> Err(RuntimeError("module not found", name)), lua |-> lua]

\* a variant that answers nil for a capability that is not registered
RequireSoftNil(name, lua) ==
    IF name \in DOMAIN lua.loaded THEN [result |-> Ok(lua.loaded[name]), lua |-> lua]
    ELSE IF ~StartsWithAt(name)
    THEN [result |-> Err(RuntimeError("invalid module name", name)), lua |-> lua]
    ELSE IF IsSome(get_predefined_package(Tail(name)))
    THEN [result |-> Ok(create_instance(Tail(name), lua)),
          lua |-> LoadedSet(lua, name, create_instance(Tail(name), lua))]
    ELSE [result |-> Ok(LuaNil), lua |-> lua]

\* a variant that constructs an instance at every call (fany runtime.rs 56-68)
RequireWithoutCache(name, lua) ==
    IF ~StartsWithAt(name)
    THEN [result |-> Err(RuntimeError("invalid module name", name)), lua |-> lua]
    ELSE IF IsSome(get_predefined_package(Tail(name)))
    THEN [result |-> Ok(create_instance(Tail(name), lua)),
          lua |-> [lua EXCEPT !.made = @ + 1]]
    ELSE [result |-> Err(RuntimeError("module not found", name)), lua |-> lua]

\* a variant that records in the cache the names it did not find
RequireCachingMisses(name, lua) ==
    IF name \in DOMAIN lua.loaded THEN [result |-> Ok(lua.loaded[name]), lua |-> lua]
    ELSE IF ~StartsWithAt(name)
    THEN [result |-> Err(RuntimeError("invalid module name", name)), lua |-> lua]
    ELSE IF IsSome(get_predefined_package(Tail(name)))
    THEN [result |-> Ok(create_instance(Tail(name), lua)),
          lua |-> LoadedSet(lua, name, create_instance(Tail(name), lua))]
    ELSE [result |-> Err(RuntimeError("module not found", name)),
          lua |-> [lua EXCEPT !.loaded = (name :> LuaNil) @@ @]]

\* Runtime::environment_require (runtime.rs 66-87): the result and the Lua
\* state it leaves
environment_require(name, lua) ==
    IF name \in DOMAIN lua.loaded THEN [result |-> Ok(lua.loaded[name]), lua |-> lua]
    ELSE IF ~StartsWithAt(name)
    THEN [result |-> Err(RuntimeError("invalid module name", name)), lua |-> lua]
    ELSE IF IsSome(get_predefined_package(Tail(name)))
    THEN [result |-> Ok(create_instance(Tail(name), lua)),
          lua |-> LoadedSet(lua, name, create_instance(Tail(name), lua))]
    ELSE [result |-> Err(RuntimeError("module not found", name)), lua |-> lua]

\* a variant that leaves the environment writable
CreateEnvironmentWritable ==
    [table |-> ("require" :> LuaFunction("environment_require")), readonly |-> FALSE]

\* Runtime::create_environment (runtime.rs 53-65): a table with require set,
\* made read-only
create_environment ==
    [table |-> ("require" :> LuaFunction("environment_require")), readonly |-> TRUE]

\* an assignment to a global by the script: an error on a read-only table
EnvAssign(env, key, value) ==
    IF env.readonly THEN [ok |-> FALSE, env |-> env]
    ELSE [ok |-> TRUE, env |-> [env EXCEPT !.table = (key :> value) @@ @]]

(***************************************************************************)
(* Script sources: the headers given to SchemaInfo::from_str.              *)
(***************************************************************************)
RECURSIVE Cat(_)
Cat(texts) == IF texts = <<>> THEN <<>> ELSE Head(texts) \o Cat(Tail(texts))

Pad(n) == [k \in 1 .. n |-> " "]

\* "--@<name>: <value>" with n spaces in each optional place, then eol
FieldLine(fname, value, n, eol) ==
    Cat(<<<<"-", "-">>, Pad(n), <<"@">>, fname, Pad(n), <<":">>, Pad(n), value, Pad(n), eol>>)

\* values, after the header of test_schema_info (schema.rs 337-345)
UuidHyphenated ==
    <<"1", "9", "8", "c", "a", "1", "5", "3", "-", "c", "c", "a", "e", "-", "4", "f", "8", "2",
      "-", "9", "2", "1", "8", "-", "9", "b", "6", "6", "5", "7", "7", "9", "6", "b", "5", "7">>
UuidSimpleUpper ==
    <<"1", "9", "8", "C", "A", "1", "5", "3", "C", "C", "A", "E", "4", "F", "8", "2",
      "9", "2", "1", "8", "9", "B", "6", "6", "5", "7", "7", "9", "6", "B", "5", "7">>
UuidOther ==
    <<"0", "0", "0", "0", "0", "0", "0", "0", "0", "0", "0", "0", "0", "0", "0", "0",
      "0", "0", "0", "0", "0", "0", "0", "0", "0", "0", "0", "0", "0", "0", "0", "1">>
NotUuid == <<"1", "9", "8", "c", "a", "1", "5", "3", "-", "x">>
IdValues == {UuidHyphenated, UuidSimpleUpper, NotUuid}
V_name == <<"t", "_", "s">>
V_other_name == <<"o">>
V_author == <<"a", " ", "b">>
V_description == <<"t", "e", "s", "t">>
V_lh_version == <<"1", ".", "0">>
DomainValues == <<<<"t", ".", "c", "o", "m">>, <<"t", "2", ".", "c", "o", "m">>>>
\* the k-th legal-domains value written: the two values in turn
DomainValue(k) == DomainValues[((k - 1) % Len(DomainValues)) + 1]
N_unknown == <<"u", "r", "l">>
ScriptBody == <<"r", "e", "t", "u", "r", "n", " ", "{", "}", LF>>

RequiredNames == <<N_id, N_name, N_author, N_description, N_lh_version>>
RequiredValue(fname, idv) ==
    CASE fname = N_id -> idv
      [] fname = N_name -> V_name
      [] fname = N_author -> V_author
      [] fname = N_description -> V_description
      [] fname = N_lh_version -> V_lh_version

\* one more line put into the header, by kind
ExtraKinds == {"none", "unknown", "not_a_line", "id_not_uuid", "id_other", "name_other", "no_eol"}
ExtraPlaces == {"first", "last", "after_blank"}
ExtraLine(kind, n, eol) ==
    CASE kind = "none" -> <<>>
      [] kind = "unknown" -> FieldLine(N_unknown, V_name, n, eol)
      [] kind = "not_a_line" -> ScriptBody
      [] kind = "id_not_uuid" -> FieldLine(N_id, NotUuid, n, eol)
      [] kind = "id_other" -> FieldLine(N_id, UuidOther, n, eol)
      [] kind = "name_other" -> FieldLine(N_name, V_other_name, n, eol)
      [] kind = "no_eol" -> FieldLine(N_legal_domains, DomainValue(2), n, <<>>)

\* the text of a script: the required fields among present (in the order of
\* RequiredNames), nd legal-domains lines, one extra line at its place, and,
\* when blank, the blank line that ends the header followed by the script body
HeaderText(present, idv, nd, kind, place, blank, n, eol) ==
    LET extra == ExtraLine(kind, n, eol)
        required == [k \in 1 .. Len(RequiredNames) |->
                       IF RequiredNames[k] \in present
                       THEN FieldLine(RequiredNames[k], RequiredValue(RequiredNames[k], idv), n, eol)
                       ELSE <<>>]
        domains == [k \in 1 .. nd |-> FieldLine(N_legal_domains, DomainValue(k), n, eol)]
    IN Cat(<<IF place = "first" THEN extra ELSE <<>>,
             Cat(required), Cat(domains),
             IF place = "last" THEN extra ELSE <<>>,
             IF blank THEN Pad(n) \o eol ELSE <<>>,
             IF blank /\ place = "after_blank" THEN extra ELSE <<>>,
             IF blank THEN ScriptBody ELSE <<>>>>)

\* a SchemaInfo written back as a header: "--@<name>: <value>" lines, the
\* legal-domains lines in the order doms, all lines backwards when rev, then
\* a blank line; the id is written as uuid's Display writes it (hyphenated)
UuidToString(id) ==
    Cat(<<SubSeq(id, 1, 8), <<"-">>, SubSeq(id, 9, 12), <<"-">>, SubSeq(id, 13, 16), <<"-">>,
          SubSeq(id, 17, 20), <<"-">>, SubSeq(id, 21, 32)>>)
WriteLine(fname, value) == Cat(<<<<"-", "-", "@">>, fname, <<":", " ">>, value, <<LF>>>>)
Rev(s) == [k \in 1 .. Len(s) |-> s[Len(s) + 1 - k]]
Orders(set) == {s \in [1 .. Cardinality(set) -> set] : \A a, b \in DOMAIN s : s[a] = s[b] => a = b}
WriteHeader(si, doms, rev) ==
    LET lines == <<WriteLine(N_id, UuidToString(si.id)), WriteLine(N_name, si.name),
                   WriteLine(N_author, si.author), WriteLine(N_description, si.description),
                   WriteLine(N_lh_version, si.lh_version)>>
                 \o [k \in 1 .. Len(doms) |-> WriteLine(N_legal_domains, doms[k])]
    IN Cat(IF rev THEN Rev(lines) ELSE lines) \o <<LF>>

\* the script texts given to Runtime::load: a complete header, and one that
\* lacks lh-version
ValidSource ==
    HeaderText({N_id, N_name, N_author, N_description, N_lh_version}, UuidHyphenated, 1,
               "none", "first", TRUE, 0, <<LF>>)
InvalidSource ==
    HeaderText({N_id, N_name, N_author, N_description}, UuidHyphenated, 1,
               "none", "first", TRUE, 0, <<LF>>)
Sources == {ValidSource, InvalidSource}
\* SchemaInfo::from_str(script) (schema.rs 86), tabulated on these texts
FromStrOfSource == [text \in Sources |-> SchemaInfoFromStr(text).result]

(***************************************************************************)
(* Schema::load (schema.rs 85-100) and Runtime::load (runtime.rs 43-51).   *)
(***************************************************************************)
CommandKeys == {"search", "book_info", "chapter", "toc", "session"}
\* what a script's chunk does when evaluated: it throws, it returns nil, or
\* it returns a table whose commands are complete but for one (bad), which is
\* absent or is a table without one of the functions the command needs
Hows(key) ==
    IF key = "session" THEN {"absent", "no_page", "no_parse", "no_wrap"}
    ELSE {"absent", "no_page", "no_parse"}
Codes ==
    {[eval |-> "throws", bad |-> "none", how |-> "absent"],
     [eval |-> "nil", bad |-> "none", how |-> "absent"],
     [eval |-> "table", bad |-> "none", how |-> "absent"]}
    \cup UNION {[eval : {"table"}, bad : {key}, how : Hows(key)] : key \in CommandKeys}
CommandFunctions(key) == IF key = "session" THEN {"page", "parse", "wrap"} ELSE {"page", "parse"}
Dropped(how) ==
    CASE how = "no_page" -> {"page"}
      [] how = "no_parse" -> {"parse"}
      [] how = "no_wrap" -> {"wrap"}
      [] OTHER -> {}
CommandValue(key, code) ==
    LuaTable([f \in (IF code.bad = key THEN CommandFunctions(key) \ Dropped(code.how)
                     ELSE CommandFunctions(key)) |-> LuaFunction(f)])
ChunkReturn(code) ==
    CASE code.eval = "throws" -> Err(LuaError("runtime"))
      [] code.eval = "nil" -> Ok(LuaNil)
      [] code.eval = "table" ->
           Ok(LuaTable([key \in (IF code.how = "absent" THEN CommandKeys \ {code.bad}
                                 ELSE CommandKeys) |-> CommandValue(key, code)]))

\* chunk.eval()? (runtime.rs 49): the chunk's value converted to a Table
EvalTable(ret) ==
    IF ~ret.ok THEN ret
    ELSE IF ret.v.t # "table" THEN Err(LuaError("conversion"))
    ELSE Ok(ret.v)

\* impl FromLua for TocCommand, BookInfoCommand (toc.rs 35-42, book_info.rs
\* 30-37) and SessionCommand: a table with the functions the command needs
CommandFromLua(value, functions) ==
    IF value.t # "table" THEN Err(LuaError("conversion"))
    ELSE IF \E f \in functions : TableGet(value.f, f).t # "function"
    THEN Err(LuaError("conversion"))
    ELSE Ok([f \in functions |-> value.f[f]])

\* table.get(key)? for a command (schema.rs 87-90)
TableGetCommand(table, key) == CommandFromLua(TableGet(table.f, key), {"page", "parse"})

\* table.get("session")? for Option<SessionCommand> (schema.rs 91)
OptionOf(r) == IF r.ok THEN Ok(Some(r.v)) ELSE r
\* a variant that takes a session value it cannot convert as no session
TableGetSessionOrNone(table) ==
    IF CommandFromLua(TableGet(table.f, "session"), {"page", "parse", "wrap"}).ok
    THEN OptionOf(CommandFromLua(TableGet(table.f, "session"), {"page", "parse", "wrap"}))
    ELSE Ok(None)
TableGetSession(table) ==
    IF TableGet(table.f, "session").t = "nil" THEN Ok(None)
    ELSE OptionOf(CommandFromLua(TableGet(table.f, "session"), {"page", "parse", "wrap"}))

\* a variant that takes toc as an optional command
TableGetOptional(table, key) ==
    IF TableGet(table.f, key).t = "nil" THEN Ok(None) ELSE TableGetCommand(table, key)
SchemaLoadLenient(script_text, table) ==
    Then(FromStrOfSource[script_text], LAMBDA schema_info :
    Then(TableGetCommand(table, "search"), LAMBDA book_search :
    Then(TableGetCommand(table, "book_info"), LAMBDA book_info :
    Then(TableGetCommand(table, "chapter"), LAMBDA book_chapter :
    Then(TableGetOptional(table, "toc"), LAMBDA book_toc :
    Then(TableGetSession(table), LAMBDA session_binding :
    Ok([schema_info |-> schema_info, book_search |-> book_search, book_info |-> book_info,
        book_chapter |-> book_chapter, book_toc |-> book_toc,
        session |-> session_binding])))))))

\* Schema::load (schema.rs 85-100)
SchemaLoad(script_text, table) ==
    Then(FromStrOfSource[script_text], LAMBDA schema_info :
    Then(TableGetCommand(table, "search"), LAMBDA book_search :
    Then(TableGetCommand(table, "book_info"), LAMBDA book_info :
    Then(TableGetCommand(table, "chapter"), LAMBDA book_chapter :
    Then(TableGetCommand(table, "toc"), LAMBDA book_toc :
    Then(TableGetSession(table), LAMBDA session_binding :
    Ok([schema_info |-> schema_info, book_search |-> book_search, book_info |-> book_info,
        book_chapter |-> book_chapter, book_toc |-> book_toc,
        session |-> session_binding])))))))

\* a variant that parses the header before it looks at the chunk's value
RuntimeLoadHeaderFirst(script_text, ret) ==
    Then(FromStrOfSource[script_text], LAMBDA schema_info :
    Then(EvalTable(ret), LAMBDA table : SchemaLoad(script_text, table)))

\* Runtime::load (runtime.rs 49-50): let result = chunk.eval()?; Schema::load
RuntimeLoad(script_text, ret) ==
    Then(EvalTable(ret), LAMBDA table : SchemaLoad(script_text, table))

(***************************************************************************)
(* Item sequences of a page: the iterator that a list command's parse      *)
(* returns (schema/toc.rs; fany schema/search.rs, chapter.rs, toc.rs).     *)
(***************************************************************************)
MaxAdvances == 3
Iters == {"TocItemIter", "SearchItemIter", "FanyTocItemIter", "ParagraphIter"}
\* the iterators whose Item is Result<..> (toc.rs 33, fany search.rs 82)
ResultIters == {"TocItemIter", "SearchItemIter"}

SearchFields == {"id", "title", "author", "cover", "last_update", "status", "intro"}
\* the fields an item record must find in the Lua table
RequiredFields(iter) ==
    CASE iter = "TocItemIter" -> {"title", "id"}
      [] iter = "FanyTocItemIter" -> {"title", "id", "tags"}
      [] iter = "SearchItemIter" -> SearchFields
      [] iter = "ParagraphIter" -> {"type", "content"}

\* tables a producer returns
TocTable == LuaTable([k \in {"id", "title"} |-> LuaString(k)])
TocTableTags == LuaTable([k \in {"id", "title", "tags"} |->
                            IF k = "tags" THEN LuaTable(<<>>) ELSE LuaString(k)])
SearchTable == LuaTable([k \in SearchFields |-> LuaString(k)])
TextTable == LuaTable([k \in {"type", "content"} |->
                         IF k = "type" THEN LuaString("text") ELSE LuaString("test")])
VideoTable == LuaTable([k \in {"type", "content"} |->
                          IF k = "type" THEN LuaString("video") ELSE LuaString("test")])
\* what one call of the producer does: it throws, or returns nil or a table
ProducerOutcomes ==
    {Err(LuaError("runtime")), Ok(LuaNil), Ok(TocTable), Ok(TocTableTags),
     Ok(SearchTable), Ok(TextTable), Ok(VideoTable)}

FieldType(k) == IF k = "tags" THEN "table" ELSE "string"
\* impl FromLua for Paragraph (fany chapter.rs 24-28), the table's fields read
ParagraphOf(type, content) ==
    CASE type = "text" -> Ok([variant |-> "Text", content |-> content])
      [] type = "image" -> Ok([variant |-> "Image", content |-> content])
      [] OTHER -> Err(LuaError("external"))
\* TocItem and SearchItem: the fields of the table; tags defaults (toc.rs 18)
RecordOf(iter, f) ==
    [k \in RequiredFields(iter) \cup (IF iter = "TocItemIter" THEN {"tags"} ELSE {}) |->
        IF k = "tags" THEN (IF "tags" \in DOMAIN f THEN f["tags"].f ELSE <<>>)
        ELSE f[k].s]
\* impl FromLua for TocItem, SearchItem, Paragraph
ItemFromLua(iter, value) ==
    IF value.t # "table" THEN Err(LuaError("conversion"))
    ELSE IF \E k \in RequiredFields(iter) : TableGet(value.f, k).t # FieldType(k)
    THEN Err(LuaError("conversion"))
    ELSE IF iter = "ParagraphIter"
    THEN ParagraphOf(value.f["type"].s, value.f["content"].s)
    ELSE Ok(RecordOf(iter, value.f))

\* the producer, a Lua closure with its own state: one invocation returns
\* its next outcome (nil once the closure has nothing left)
ProducerInvoke(producer, produced) ==
    [ret |-> IF produced < Len(producer) THEN producer[produced + 1] ELSE Ok(LuaNil),
     produced |-> produced + 1]
\* self.parse_fn.call(()) as mlua::Result<Option<Item>>
CallOption(iter, ret) ==
    IF ~ret.ok THEN ret
    ELSE IF ret.v.t = "nil" THEN Ok(None)
    ELSE OptionOf(ItemFromLua(iter, ret.v))
\* Result<Option<T>>::transpose
Transpose(r) ==
    IF ~r.ok THEN Some(r)
    ELSE IF r.v = None THEN None
    ELSE Some(Ok(Unwrap(r.v)))
\* what next returns for the value of the call
NextOf(iter, r) ==
    IF iter \in ResultIters THEN Transpose(r)
    ELSE IF r.ok THEN r.v
    ELSE None
\* a variant that asks the producer for the item after this one as well
IterNextAhead(iter, producer, produced) ==
    [result |-> NextOf(iter, CallOption(iter, ProducerInvoke(producer, produced).ret)),
     produced |-> ProducerInvoke(producer, produced + 1).produced]
\* Iterator::next (toc.rs 35-43, fany search.rs 84-92, fany chapter.rs 39-47,
\* fany toc.rs 37-45): the result and the producer's state after it
IterNext(iter, producer, produced) ==
    [result |-> NextOf(iter, CallOption(iter, ProducerInvoke(producer, produced).ret)),
     produced |-> ProducerInvoke(producer, produced).produced]

(***************************************************************************)
(* Schema::book_info (schema.rs 112-122) over BookInfoCommand              *)
(* (schema/book_info.rs).                                                  *)
(***************************************************************************)
Ids == {"123"}
\* the script's book_info page callable, by what it returns for an id
BookPageKinds == {"url", "url_only", "full", "no_url", "nil", "throws"}
\* the script's book_info parse callable
BookParseKinds == {"record", "incomplete", "throws"}
BookInfoFields == {"title", "author", "cover", "last_update", "status", "intro"}

\* the URL a script builds from its host and the id
UrlOfId(host, id) == [host |-> host, query |-> <<<<"id", id>>>>]
PostHeaders == ("Accept" :> "text/html")
PostBody == <<1>>
\* page(id) of book_info: a Lua value or a thrown error
ScriptBookPage(kind, host, id) ==
    CASE kind = "url" -> Ok(LuaString(UrlOfId(host, id)))
      [] kind = "url_only" -> Ok(LuaTable([k \in {"url"} |-> UrlOfId(host, id)]))
      [] kind = "full" ->
           Ok(LuaTable([k \in {"url", "method", "headers", "body"} |->
                          CASE k = "url" -> UrlOfId(host, id)
                            [] k = "method" -> "POST"
                            [] k = "headers" -> PostHeaders
                            [] k = "body" -> PostBody]))
      [] kind = "no_url" -> Ok(LuaTable([k \in {"method"} |-> "POST"]))
      [] kind = "nil" -> Ok(LuaNil)
      [] kind = "throws" -> Err("LuaError")
\* parse(content) of book_info: a Lua value or a thrown error
ScriptBookParse(kind, content) ==
    CASE kind = "record" ->
           Ok(LuaTable([k \in BookInfoFields |->
                          IF k = "intro" THEN LuaString(content) ELSE LuaString(k)]))
      [] kind = "incomplete" -> Ok(LuaTable([k \in {"title"} |-> LuaString(k)]))
      [] kind = "throws" -> Err("LuaError")

\* impl FromLua for BookInfo (book_info.rs 24-28): all six fields are needed
BookInfoFromLua(value) ==
    IF value.t = "table" /\ \A k \in BookInfoFields : TableGet(value.f, k).t = "string"
    THEN Ok([k \in BookInfoFields |-> value.f[k].s])
    ELSE Err("LuaError")

\* a variant that takes nil as a request with every field at its default
BookInfoPageNilAsDefault(book_script, id) ==
    IF ~ScriptBookPage(book_script.page, book_script.host, id).ok
    THEN Err(ScriptBookPage(book_script.page, book_script.host, id).err)
    ELSE IF ScriptBookPage(book_script.page, book_script.host, id).v = LuaNil
    THEN Ok(HttpRequest(Url(BadHost), "GET", NoHeaders, <<>>))
    ELSE FromLua(ScriptBookPage(book_script.page, book_script.host, id).v)

\* BookInfoCommand::page (book_info.rs 51-53)
BookInfoPage(book_script, id) ==
    IF ScriptBookPage(book_script.page, book_script.host, id).ok
    THEN FromLua(ScriptBookPage(book_script.page, book_script.host, id).v)
    ELSE Err(ScriptBookPage(book_script.page, book_script.host, id).err)
\* BookInfoCommand::parse (book_info.rs 47-49)
BookInfoParse(book_script, content) ==
    IF ScriptBookParse(book_script.parse, content).ok
    THEN BookInfoFromLua(ScriptBookParse(book_script.parse, content).v)
    ELSE Err(ScriptBookParse(book_script.parse, content).err)

\* impl CommandRequest for HttpRequest (schema.rs 53-60) under
\* CommandWithSession::page (schema.rs 269-278)
RequestWrap(base, session_command, session) ==
    IF ~base.ok THEN [base |-> base, wraps |-> <<>>, result |-> base]
    ELSE [base |-> base, wraps |-> SessionMap(base.v, session_command, session).wraps,
          result |-> SessionMap(base.v, session_command, session).result]

\* the steps of one book_info call up to the await of http.request
BookPageStep(id, call) ==
    [step |-> "page", id |-> id, base |-> call.base, wraps |-> call.wraps,
     result |-> call.result]
BookRequestStep(request, check) == [step |-> "request", request |-> request, check |-> check]
\* a variant that goes on to the request with the unwrapped path when the
\* wrapped page call failed
BookInfoIgnoringWrapFault(allowed, id, call) ==
    IF ~call.base.ok
    THEN [trace |-> <<BookPageStep(id, call)>>, result |-> Some(call.result), send |-> None]
    ELSE IF HttpClientCheck(allowed, call.base.v) # "send"
    THEN [trace |-> <<BookPageStep(id, call),
                      BookRequestStep(call.base.v, HttpClientCheck(allowed, call.base.v))>>,
          result |-> Some(Err(HttpClientCheck(allowed, call.base.v))), send |-> None]
    ELSE [trace |-> <<BookPageStep(id, call), BookRequestStep(call.base.v, "send")>>,
          result |-> None, send |-> Some(call.base.v)]
\* Schema::book_info (schema.rs 118-120): command.page(id, ())?, then
\* http.request(path) up to its network call
BookInfoBegin(allowed, id, call) ==
    IF ~call.result.ok
    THEN [trace |-> <<BookPageStep(id, call)>>, result |-> Some(call.result), send |-> None]
    ELSE IF HttpClientCheck(allowed, call.result.v) # "send"
    THEN [trace |-> <<BookPageStep(id, call),
                      BookRequestStep(call.result.v, HttpClientCheck(allowed, call.result.v))>>,
          result |-> Some(Err(HttpClientCheck(allowed, call.result.v))), send |-> None]
    ELSE [trace |-> <<BookPageStep(id, call), BookRequestStep(call.result.v, "send")>>,
          result |-> None, send |-> Some(call.result.v)]
\* Schema::book_info (schema.rs 120-121): the response, then command.parse
BookInfoEnd(book_script, response) ==
    IF ~response.ok
    THEN [trace |-> <<[step |-> "response", response |-> response]>>, result |-> Some(response)]
    ELSE [trace |-> <<[step |-> "response", response |-> response],
                      [step |-> "parse", content |-> response.v,
                       ret |-> ScriptBookParse(book_script.parse, response.v)]>>,
          result |-> Some(BookInfoParse(book_script, response.v))]

\* the sets of required fields a header is written with
PresentSets == SUBSET {RequiredNames[k] : k \in 1 .. Len(RequiredNames)}

(***************************************************************************)
(* State: one HttpClient, one loaded script, one PageItems sequence.       *)
(***************************************************************************)
VARIABLES
    allowed_domains,   \* HttpClient.allowed_domains
    script,            \* behaviours of the list command's page and parse
    session_command,   \* Schema.session: Option of the wrap behaviour
    session,           \* CommandWithSession.session: Option<Session>
    session_table,     \* the content of the Lua table a table session refers to
    page,              \* PageItems.page
    page_content,      \* PageItems.page_content
    pc,                \* "idle", or "awaiting" inside http.request(...).await
    inflight,          \* the request handed to the network, while awaiting
    log,               \* history: one record per next_page call
    net,               \* history: the requests sent on the network
    shape,             \* how the script text was written (the choices of HeaderText)
    source,            \* the script text given to SchemaInfo::from_str
    info,              \* what SchemaInfo::from_str returned, once called
    again,             \* the SchemaInfo written back as a header, and from_str of it
    lua,               \* Runtime.lua: package.loaded and the instances constructed
    envs,              \* the environments created by load, one per call
    rlog,              \* history: the require calls and assignments of the scripts
    last_load,         \* the load that has just returned: script, chunk, result
    item_iter,         \* the item iterator a parse returned: which Iterator impl
    producer,          \* the Lua closure it holds: what its successive calls do
    produced,          \* the closure's state: how many times it was invoked
    yields,            \* history: one record per call of next
    book_script,       \* behaviours of book_info's page and parse
    book_trace,        \* history: the steps a book_info call has taken
    book_result        \* what the book_info call returned, once it has

vars == <<allowed_domains, script, session_command, session, session_table, page, page_content,
          pc, inflight, log, net, shape, source, info, again, lua, envs, rlog, last_load,
          item_iter, producer, produced, yields, book_script, book_trace, book_result>>

engineVars == <<allowed_domains, script, session_command, session, session_table, page,
                page_content,
                pc, inflight, log, net>>
infoVars == <<shape, source, info, again>>
runtimeVars == <<lua, envs, rlog, last_load>>
itemVars == <<item_iter, producer, produced, yields>>
bookVars == <<book_script, book_trace, book_result>>

\* no book_info call under way
NoBook ==
    /\ book_script = [page |-> "throws", parse |-> "throws", host |-> BadHost]
    /\ book_trace = <<>>
    /\ book_result = None

\* no item sequence under way
NoItems ==
    /\ item_iter = None
    /\ producer = <<>>
    /\ produced = 0
    /\ yields = <<>>

\* a Runtime on which nothing has been loaded (Runtime::new, runtime.rs 37-41)
RuntimeIdle ==
    /\ lua = RuntimeNew
    /\ envs = <<>>
    /\ rlog = <<>>
    /\ last_load = None

\* the engine at rest, for the behaviours that only parse a header
EngineIdle ==
    /\ allowed_domains = {}
    /\ script = [page |-> "throws", parse |-> "producer", host |-> BadHost]
    /\ session_command = None
    /\ session = None
    /\ session_table = SessionTableNew
    /\ page = 1
    /\ page_content = None
    /\ pc = "idle"
    /\ inflight = None
    /\ log = <<>>
    /\ net = <<>>

\* no header under way, for the behaviours of the engine
NoSource ==
    /\ shape = <<>>
    /\ source = <<>>
    /\ info = None
    /\ again = None

\* PageItems::new (schema.rs 294-302) on a freshly built client and command
Init ==
    /\ allowed_domains \in AllowLists
    /\ script \in [page : PageKinds, parse : ParseKinds, host : Hosts]
    /\ session_command \in {None} \cup {Some(k) : k \in WrapKinds}
    /\ session \in {None} \cup {Some(s) : s \in Sessions}
    /\ session_table = SessionTableNew
    /\ page = 1
    /\ page_content = None
    /\ pc = "idle"
    /\ inflight = None
    /\ log = <<>>
    /\ net = <<>>
    /\ NoSource
    /\ RuntimeIdle
    /\ NoItems
    /\ NoBook

\* self.page_content.take() (schema.rs 312): what is left in the field
TakeLeaves(content) == None

\* self.page_content = Some(response) (schema.rs 322)
KeepsNothing(response) == None
StoredContent(response) == Some(response)

\* self.page += 1 (schema.rs 323)
StaysOnPage(p) == p
SkipsPage(p) == p + 2
NextPageNumber(p) == p + 1

\* the log entry of a call that has not finished yet
Entry(call, http, outcome, returned) ==
    [page |-> page, content |-> page_content, base |-> call.base, wraps |-> call.wraps,
     request |-> call.result, http |-> http, response |-> None, parse |-> None,
     outcome |-> outcome, returned |-> returned,
     seen |-> IF call.wraps = <<>> THEN None
              ELSE Some(SessionSeen(call.wraps[1].session, session_table))]

\* a variant that lets next_page be entered while a call of it is awaiting
SharedBorrow(state) == TRUE
\* next_page(&mut self) (schema.rs 309): the sequence is borrowed
\* exclusively for the whole call, the await included
ExclusiveBorrow(state) == state = "idle"

\* PageItems::next_page (schema.rs 309-320): from the call to the await of
\* http.request, or to the return when no request is sent
NextPageCall ==
    /\ ExclusiveBorrow(pc)
    /\ Len(log) < MaxCalls
    /\ LET call == CommandWithSessionPage(script, session_command, session, page, page_content)
           request == call.result
       IN /\ page_content' = TakeLeaves(page_content)
          /\ session_table' = WrapEffect(session_command, call.wraps, session_table)
          /\ IF ~request.ok
             THEN /\ log' = Append(log, Entry(call, "none", "error", Some(request)))
                  /\ UNCHANGED <<pc, inflight, net>>
             ELSE IF request.v = None
             THEN /\ log' = Append(log, Entry(call, "none", "end", Some(Ok(None))))
                  /\ UNCHANGED <<pc, inflight, net>>
             ELSE LET check == HttpClientCheck(allowed_domains, Unwrap(request.v)) IN
                  IF check = "send"
                  THEN /\ pc' = "awaiting"
                       /\ inflight' = request.v
                       /\ net' = Append(net, Unwrap(request.v))
                       /\ log' = Append(log, Entry(call, "sent", "pending", None))
                  ELSE /\ log' = Append(log, Entry(call, check, "error", Some(Err(check))))
                       /\ UNCHANGED <<pc, inflight, net>>
    /\ UNCHANGED <<allowed_domains, script, session_command, session, page, infoVars, runtimeVars, itemVars, bookVars>>

\* the last log entry, completed
Finish(response, parse, outcome, returned) ==
    [log EXCEPT ![Len(log)] = [@ EXCEPT !.response = response, !.parse = parse,
                                        !.outcome = outcome, !.returned = Some(returned)]]

\* PageItems::next_page (schema.rs 320-325): the network answers, then parse
HttpRespond ==
    /\ pc = "awaiting"
    /\ pc' = "idle"
    /\ inflight' = None
    /\ \E response \in {Ok(t) : t \in Texts} \cup {Err("NetworkError")} :
         IF ~response.ok
         THEN /\ log' = Finish(None, None, "error", response)
              /\ UNCHANGED <<page, page_content>>
         ELSE LET iter == ScriptParse(script.parse, response.v) IN
              IF ~iter.ok
              THEN /\ log' = Finish(Some(response.v), Some(iter), "error", iter)
                   /\ UNCHANGED <<page, page_content>>
              ELSE /\ page_content' = StoredContent(response.v)
                   /\ page' = NextPageNumber(page)
                   /\ log' = Finish(Some(response.v), Some(iter), "page", Ok(Some(iter.v)))
    /\ UNCHANGED <<allowed_domains, script, session_command, session, session_table, net,
                   infoVars, runtimeVars, itemVars, bookVars>>

Next == NextPageCall \/ HttpRespond

Spec == Init /\ [][Next]_vars

(***************************************************************************)
(* Loading a header: SchemaInfo::from_str applied to a script text.        *)
(***************************************************************************)
InitInfo ==
    /\ EngineIdle
    /\ RuntimeIdle
    /\ NoItems
    /\ NoBook
    /\ info = None
    /\ again = None
    /\ shape \in [present : PresentSets, idv : IdValues, nd : 0 .. MaxDomainLines,
                  kind : ExtraKinds, place : ExtraPlaces, blank : BOOLEAN,
                  pad : 0 .. MaxPad, eol : {<<LF>>, <<CR, LF>>}]
    \* one record for each text
    /\ N_id \notin shape.present => shape.idv = UuidHyphenated
    /\ shape.kind = "none" => shape.place = "first"
    /\ shape.place = "after_blank" => shape.blank
    /\ source = HeaderText(shape.present, shape.idv, shape.nd, shape.kind, shape.place,
                           shape.blank, shape.pad, shape.eol)

\* Schema::load (schema.rs 86): let schema_info = SchemaInfo::from_str(script)
LoadInfo ==
    /\ info = None
    /\ info' = Some(SchemaInfoFromStr(source))
    /\ UNCHANGED <<engineVars, shape, source, again, runtimeVars, itemVars, bookVars>>

\* SchemaInfo::from_str (schema.rs 158) once more, on the SchemaInfo it
\* returned written back as a header
LoadAgain ==
    /\ info # None
    /\ Unwrap(info).result.ok
    /\ again = None
    /\ \E doms \in Orders(Unwrap(info).result.v.legal_domains), rev \in BOOLEAN :
         again' = Some([rev |-> rev,
                        result |-> SchemaInfoFromStr(WriteHeader(Unwrap(info).result.v, doms, rev)).result])
    /\ UNCHANGED <<engineVars, shape, source, info, runtimeVars, itemVars, bookVars>>

NextInfo == LoadInfo \/ LoadAgain

SpecInfo == InitInfo /\ [][NextInfo]_vars

(***************************************************************************)
(* Loading scripts on one Runtime: load creates an environment and         *)
(* evaluates the chunk in it; the script calls require and assigns globals *)
(* while it is evaluated and, once loaded, whenever its callables run.     *)
(***************************************************************************)
InitRuntime ==
    /\ EngineIdle
    /\ NoSource
    /\ RuntimeIdle
    /\ NoItems
    /\ NoBook

Evaluating == {e \in 1 .. Len(envs) : envs[e].state = "evaluating"}
\* the environments whose script can take a step now
Running == IF Evaluating # {} THEN Evaluating
           ELSE {e \in 1 .. Len(envs) : envs[e].state = "loaded"}

\* Runtime::load (runtime.rs 43-48): the environment is created and the
\* evaluation of the chunk begins
LoadBegin ==
    /\ Evaluating = {}
    /\ Len(envs) < MaxLoads
    /\ \E script_text \in Sources :
         envs' = Append(envs, [env |-> create_environment, source |-> script_text,
                               state |-> "evaluating"])
    /\ last_load' = None
    /\ UNCHANGED <<engineVars, infoVars, itemVars, bookVars, lua, rlog>>

\* the script calls require(name): the function its environment holds
ScriptRequire ==
    /\ Len(rlog) < MaxSteps
    /\ \E e \in Running, name \in RequireNames :
         IF envs[e].env.table["require"] = LuaFunction("environment_require")
         THEN /\ lua' = environment_require(name, lua).lua
              /\ rlog' = Append(rlog, [op |-> "require", env |-> e, name |-> name,
                                       via |-> "environment_require",
                                       result |-> environment_require(name, lua).result,
                                       before |-> lua])
         ELSE /\ rlog' = Append(rlog, [op |-> "require", env |-> e, name |-> name,
                                       via |-> "script", result |-> Ok(LuaNil), before |-> lua])
              /\ lua' = lua
    /\ last_load' = None
    /\ UNCHANGED <<engineVars, infoVars, itemVars, bookVars, envs>>

\* the script assigns a global of its environment
ScriptAssign ==
    /\ Len(rlog) < MaxSteps
    /\ \E e \in Running, key \in AssignKeys :
         /\ envs' = [envs EXCEPT ![e].env = EnvAssign(@, key, LuaFunction("script")).env]
         /\ rlog' = Append(rlog, [op |-> "assign", env |-> e, name |-> key,
                                  ok |-> EnvAssign(envs[e].env, key, LuaFunction("script")).ok])
    /\ last_load' = None
    /\ UNCHANGED <<engineVars, infoVars, itemVars, bookVars, lua>>

\* Runtime::load (runtime.rs 49-50): the evaluation ends, Schema::load; the
\* script text was borrowed for the call
LoadReturn(e, code, result) ==
    /\ last_load' = Some([env |-> e, source |-> envs[e].source, code |-> code, result |-> result])
    /\ envs' = [envs EXCEPT ![e].state = IF result.ok THEN "loaded" ELSE "dropped",
                            ![e].source = <<>>]
LoadEnd ==
    /\ \E e \in Evaluating, code \in Codes :
         LoadReturn(e, code, RuntimeLoad(envs[e].source, ChunkReturn(code)))
    /\ UNCHANGED <<engineVars, infoVars, itemVars, bookVars, lua, rlog>>

NextRuntime == LoadBegin \/ ScriptRequire \/ ScriptAssign \/ LoadEnd

SpecRuntime == InitRuntime /\ [][NextRuntime]_vars

(***************************************************************************)
(* The behaviours of a page's item sequence.                               *)
(***************************************************************************)
\* Command::parse has returned the iterator (toc.rs 66-69)
InitItems ==
    /\ EngineIdle
    /\ NoSource
    /\ RuntimeIdle
    /\ NoBook
    /\ item_iter \in {Some(i) : i \in Iters}
    /\ producer \in [1 .. MaxAdvances -> ProducerOutcomes]
    /\ produced = 0
    /\ yields = <<>>

\* one call of next by the caller
Advance ==
    /\ Len(yields) < MaxAdvances
    /\ yields' = Append(yields,
          [iter |-> Unwrap(item_iter), before |-> produced,
           after |-> IterNext(Unwrap(item_iter), producer, produced).produced,
           result |-> IterNext(Unwrap(item_iter), producer, produced).result])
    /\ produced' = IterNext(Unwrap(item_iter), producer, produced).produced
    /\ UNCHANGED <<engineVars, infoVars, runtimeVars, bookVars, item_iter, producer>>

NextItems == Advance

SpecItems == InitItems /\ [][NextItems]_vars

(***************************************************************************)
(* The behaviours of one book_info call.                                   *)
(***************************************************************************)
InitBook ==
    /\ allowed_domains \in AllowLists
    /\ session_command \in {None} \cup {Some(k) : k \in WrapKinds}
    /\ session \in {None} \cup {Some(s) : s \in Sessions}
    /\ session_table = SessionTableNew
    /\ script = [page |-> "throws", parse |-> "producer", host |-> BadHost]
    /\ page = 1
    /\ page_content = None
    /\ pc = "idle"
    /\ inflight = None
    /\ log = <<>>
    /\ net = <<>>
    /\ NoSource
    /\ RuntimeIdle
    /\ NoItems
    /\ book_script \in [page : BookPageKinds, parse : BookParseKinds, host : Hosts]
    /\ book_trace = <<>>
    /\ book_result = None

\* Schema::book_info (schema.rs 118-120): from the call to the await inside
\* http.request, or to the return when page or the client's checks fail
BookInfoCall(b) ==
    /\ pc = "idle"
    /\ book_trace = <<>>
    /\ book_trace' = b.trace
    /\ session_table' = WrapEffect(session_command, b.trace[1].wraps, session_table)
    /\ book_result' = b.result
    /\ IF b.send # None
       THEN /\ pc' = "awaiting"
            /\ inflight' = b.send
            /\ net' = Append(net, Unwrap(b.send))
       ELSE UNCHANGED <<pc, inflight, net>>
    /\ UNCHANGED <<allowed_domains, script, session_command, session, page, page_content,
                   log, infoVars, runtimeVars, itemVars, book_script>>

\* Schema::book_info (schema.rs 120-121): the network answers, then parse
BookInfoRespond(e) ==
    /\ pc = "awaiting"
    /\ pc' = "idle"
    /\ inflight' = None
    /\ book_trace' = book_trace \o e.trace
    /\ book_result' = e.result
    /\ UNCHANGED <<allowed_domains, script, session_command, session, session_table, page,
                   page_content, log, net, infoVars, runtimeVars, itemVars, book_script>>

NextBook ==
    \/ \E id \in Ids :
         BookInfoCall(BookInfoBegin(allowed_domains, id,
             RequestWrap(BookInfoPage(book_script, id), session_command, session)))
    \/ \E response \in {Ok(t) : t \in Texts} \cup {Err("NetworkError")} :
         BookInfoRespond(BookInfoEnd(book_script, response))

SpecBook == InitBook /\ [][NextBook]_vars

(***************************************************************************)
(* One schema used for both kinds of fetch: a PageItems sequence and a     *)
(* book_info call, created with the same session over the same client.     *)
(* The scripts are those whose page and parse callables work, so that the  *)
(* session wrapper and the client decide the outcome.  The two calls are   *)
(* taken one after the other: a call starts when no call is awaiting.      *)
(***************************************************************************)
FetchHosts == {"a.com", "b.com"}

InitFetch ==
    /\ allowed_domains \in AllowLists
    /\ session_command \in {None} \cup {Some(k) : k \in WrapKinds}
    /\ session \in {None} \cup {Some(s) : s \in Sessions}
    /\ session_table = SessionTableNew
    /\ script \in [page : {"first_only", "always"}, parse : {"producer"}, host : FetchHosts]
    /\ page = 1
    /\ page_content = None
    /\ pc = "idle"
    /\ inflight = None
    /\ log = <<>>
    /\ net = <<>>
    /\ NoSource
    /\ RuntimeIdle
    /\ NoItems
    /\ book_script \in [page : {"url", "full"}, parse : {"record"}, host : FetchHosts]
    /\ book_trace = <<>>
    /\ book_result = None

\* the call that is awaiting the network is a next_page, a book_info
AwaitingPage == log # <<>> /\ log[Len(log)].outcome = "pending"
AwaitingBook == book_trace # <<>> /\ book_result = None

NextFetch ==
    \/ NextPageCall
    \/ (AwaitingPage /\ HttpRespond)
    \/ \E id \in Ids :
         BookInfoCall(BookInfoBegin(allowed_domains, id,
             RequestWrap(BookInfoPage(book_script, id), session_command, session)))
    \/ \E response \in {Ok(t) : t \in Texts} \cup {Err("NetworkError")} :
         AwaitingBook /\ BookInfoRespond(BookInfoEnd(book_script, response))

SpecFetch == InitFetch /\ [][NextFetch]_vars

(***************************************************************************)
(* Properties of the engine.                                               *)
(***************************************************************************)
Calls == 1 .. Len(log)
\* the call produced a request (after session wrapping)
HasRequest(e) == e.request.ok /\ e.request.v # None
\* the base command produced a request
BaseHasRequest(e) == e.base.ok /\ e.base.v # None
\* the number of calls before call i that returned a page
PagesBefore(i) == Cardinality({j \in 1 .. (i - 1) : log[j].outcome = "page"})

\* C1: a request whose URL has a domain outside the client's allow-list is
\* answered with NotAllowedDomain, and no request sent on the network has a
\* host outside the allow-list; the network calls are exactly the calls that
\* passed the check.
C1_AllowList ==
    /\ \A i \in Calls :
         (HasRequest(log[i]) /\ Unwrap(log[i].request.v).url.host \in Domains \ allowed_domains)
            => (log[i].http = "NotAllowedDomain" /\ log[i].outcome = "error")
    /\ \A n \in 1 .. Len(net) : net[n].url.host \in allowed_domains
    /\ Len(net) = Cardinality({i \in Calls : log[i].http = "sent"})

C1_Witness ==
    \E i \in Calls : /\ log[i].http = "NotAllowedDomain"
                     /\ allowed_domains # {}
                     /\ net = <<>>

\* C2: when the base command produced a request and both the session binding
\* and the session value are present, wrap is called exactly once, with the base
\* request and the session, and the request returned is wrap's return value
\* (its URL, method, headers and body; a thrown error is a failure); when either
\* is absent wrap is not called and the base command's result is returned as is.
\* This holds for every call of the sequence.  With the wrap of the scenario
\* (append the session to the URL, set a header) the request shows exactly that.
C2_SessionWrap ==
    \A i \in Calls :
      LET e == log[i] IN
      BaseHasRequest(e) =>
        IF IsSome(session_command) /\ IsSome(session)
        THEN /\ Len(e.wraps) = 1
             /\ e.wraps[1].session = Unwrap(session)
             /\ e.wraps[1].arg.t = "table"
             /\ e.wraps[1].arg.f["url"] = Unwrap(e.base.v).url
             /\ e.wraps[1].arg.f["headers"] = Unwrap(e.base.v).headers
             /\ LET ret == e.wraps[1].ret IN
                /\ ~ret.ok => ~e.request.ok
                /\ (ret.ok /\ ret.v.t = "table") =>
                     /\ HasRequest(e)
                     /\ Unwrap(e.request.v).url = ret.v.f["url"]
                     /\ Unwrap(e.request.v).method = ret.v.f["method"]
                     /\ Unwrap(e.request.v).headers = ret.v.f["headers"]
                     /\ Unwrap(e.request.v).body = ret.v.f["body"]
                /\ session_command = Some("append") =>
                     /\ HasRequest(e)
                     /\ Unwrap(e.request.v).url =
                          [host |-> script.host, query |-> <<<<"session", Unwrap(session)>>>>]
                     /\ Unwrap(e.request.v).headers = ("User-Agent" :> Unwrap(session))
        ELSE /\ e.wraps = <<>>
             /\ e.request = e.base

C2_Witness ==
    /\ Len(log) >= 2
    /\ session_command = Some("append")
    /\ \A i \in {1, 2} : /\ Len(log[i].wraps) = 1
                         /\ HasRequest(log[i])
                         /\ Unwrap(log[i].request.v).url.query # <<>>

\* C3: when the base command's page returns "no request", the wrapper returns
\* "no request" too and wrap is not called, with or without a session.
C3_NoRequestIdentity ==
    \A i \in Calls :
      (log[i].base.ok /\ log[i].base.v = None)
         => (log[i].wraps = <<>> /\ log[i].request = Ok(None) /\ log[i].http = "none")

C3_Witness ==
    \E i \in Calls : /\ log[i].base.ok /\ log[i].base.v = None
                     /\ IsSome(session_command) /\ IsSome(session)
                     /\ log[i].outcome = "end"

\* C4: the page number starts at 1 and is 1 plus the number of next_page calls
\* that have returned a page, both in the cursor and in every call of the page
\* callable; it changes only when a call returns a page, and then by 1.
C4_PageNumber ==
    /\ page = 1 + PagesBefore(Len(log) + 1)
    /\ \A i \in Calls : log[i].page = 1 + PagesBefore(i)

C4_Witness ==
    /\ Len(log) = 3 /\ pc = "idle"
    /\ log[1].outcome = "page" /\ log[2].outcome = "error" /\ log[3].outcome = "page"
    /\ page = 3

\* C5: once a call has returned end-of-sequence, every later call of the
\* sequence returns end-of-sequence and sends no HTTP request.
C5_EndIsFinal ==
    \A i, j \in Calls :
      (i < j /\ log[i].outcome = "end") => (log[j].outcome = "end" /\ log[j].http = "none")

\* C6: the previous text passed to the page callable is none on the first call,
\* and after a call that returned a page it is the response body of that call.
C6_PreviousText ==
    \A i \in Calls :
      /\ i = 1 => log[i].content = None
      /\ (i > 1 /\ log[i - 1].outcome = "page") =>
            (log[i].content # None /\ log[i].content = log[i - 1].response)

C6_Witness ==
    /\ Len(log) = 3
    /\ log[1].outcome = "page" /\ log[2].outcome = "page"
    /\ log[2].content = Some("t1") /\ log[3].content = Some("t2")

\* C7: with a page callable that returns a request only for page 1, whose
\* request the client accepts and the network answers, and whose parse returns
\* a producer: the first call returns a page, the second returns
\* end-of-sequence, and one HTTP request has been sent over the two calls.
C7_FirstPageOnly ==
    (script.page = "first_only" /\ script.parse = "producer") =>
      /\ (Len(log) >= 1 /\ log[1].http = "sent" /\ log[1].response # None)
            => log[1].outcome = "page"
      /\ (Len(log) >= 2 /\ log[1].outcome = "page")
            => (log[2].outcome = "end" /\ Len(net) = 1)

C7_Witness ==
    /\ script.page = "first_only" /\ script.parse = "producer"
    /\ Len(log) = 2
    /\ log[1].outcome = "page" /\ log[2].outcome = "end"
    /\ Len(net) = 1

\* the cursor of the paginator after call i: the page number and previous
\* text the next call starts from
PageAfter(i) == IF i < Len(log) THEN log[i + 1].page ELSE page
ContentAfter(i) == IF i < Len(log) THEN log[i + 1].content ELSE page_content
\* the page call of entry e failed: the page callable threw or returned a
\* value that is no request, or wrap did
WrapFault(e) == Len(e.wraps) = 1 /\ ~e.wraps[1].result.ok
PageFault(e) == ~e.base.ok \/ WrapFault(e)
NoDomainHosts == {BadHost, IpHost}

\* C26: a request whose URL does not parse, or parses to a host that is not
\* a domain (an IP address), is answered with InvalidUrl, which is not the
\* answer given to a domain outside the allow-list, and nothing is sent on
\* the network for it
C26_InvalidUrl ==
    /\ \A i \in Calls :
         HasRequest(log[i]) =>
            /\ Unwrap(log[i].request.v).url.host \in NoDomainHosts =>
                  /\ log[i].http = "InvalidUrl"
                  /\ log[i].returned = Some(Err("InvalidUrl"))
                  /\ log[i].response = None
            /\ log[i].http = "InvalidUrl" => Unwrap(log[i].request.v).url.host \in NoDomainHosts
    /\ \A n \in 1 .. Len(net) : net[n].url.host \notin NoDomainHosts
    /\ Len(net) = Cardinality({i \in Calls : log[i].http \notin {"none", "InvalidUrl",
                                                                  "NotAllowedDomain"}})

C26_Witness ==
    /\ Len(log) = 2
    /\ allowed_domains # {}
    /\ script.host = IpHost
    /\ \A i \in {1, 2} : log[i].http = "InvalidUrl" /\ log[i].outcome = "error"
    /\ net = <<>>

\* C27: a call in which the page callable, or the session wrap of its
\* request, fails returns that failure, sends no HTTP request and does not
\* call parse; the page callable and wrap are called once in it
C27_PageFaultReturned ==
    /\ \A i \in Calls :
         PageFault(log[i]) =>
            /\ log[i].outcome = "error"
            /\ log[i].returned =
                  Some(Err(IF ~log[i].base.ok THEN log[i].base.err
                           ELSE log[i].wraps[1].result.err))
            /\ log[i].http = "none"
            /\ log[i].response = None
            /\ log[i].parse = None
            /\ Len(log[i].wraps) <= 1
    /\ Len(net) = Cardinality({i \in Calls : ~PageFault(log[i]) /\ log[i].http = "sent"})

C27_Witness ==
    /\ Len(log) = 2
    /\ session_command = Some("throws")
    /\ WrapFault(log[1]) /\ log[1].base.ok
    /\ WrapFault(log[2]) /\ log[2].base.ok
    /\ log[2].returned = Some(Err("LuaError"))
    /\ net = <<>>

\* C29: a call that returns the end of sequence leaves the cursor as it
\* was: the page number and the stored previous text after the call are
\* those before it
C29_EndLeavesCursor ==
    \A i \in Calls :
        log[i].outcome = "end" =>
            (PageAfter(i) = log[i].page /\ ContentAfter(i) = log[i].content)

\* C30: a call that fails (the page callable, wrap, the HTTP client or
\* parse) leaves the cursor as it was: the page number is not incremented
\* and the next call passes the page callable the same page number and
\* previous text
C30_FailureLeavesCursor ==
    \A i \in Calls :
        log[i].outcome = "error" =>
            (PageAfter(i) = log[i].page /\ ContentAfter(i) = log[i].content)

\* host h is a subdomain or the parent domain of an allowed domain
NearAllowed(h) ==
    \E d \in allowed_domains : <<h, d>> \in SubdomainPairs \/ <<d, h>> \in SubdomainPairs

\* C37: a request to a host that is a subdomain or the parent domain of an
\* allowed domain, and is not in the allow-list itself, is answered with
\* NotAllowedDomain, and no request is sent to such a host
C37_ExactHostMatch ==
    /\ \A i \in Calls :
         (HasRequest(log[i])
            /\ Unwrap(log[i].request.v).url.host \notin allowed_domains
            /\ NearAllowed(Unwrap(log[i].request.v).url.host)) =>
                /\ log[i].http = "NotAllowedDomain"
                /\ log[i].returned = Some(Err("NotAllowedDomain"))
                /\ log[i].response = None
    /\ \A n \in 1 .. Len(net) : NearAllowed(net[n].url.host) => net[n].url.host \in allowed_domains

C37_Witness ==
    /\ allowed_domains = {"a.com"}
    /\ Len(log) = 1
    /\ HasRequest(log[1])
    /\ Unwrap(log[1].request.v).url.host = "www.a.com"
    /\ log[1].http = "NotAllowedDomain"
    /\ net = <<>>

Pending == {i \in Calls : log[i].outcome = "pending"}
\* the calls that sent a request on the network
Sent == {i \in Calls : log[i].http = "sent"}
\* call j fetched and parsed page n
Completed(j, n) ==
    /\ log[j].page = n
    /\ log[j].outcome = "page"
    /\ log[j].response # None
    /\ log[j].parse # None /\ Unwrap(log[j].parse).ok

\* C33: the pages of one sequence are fetched one at a time and in order:
\* at most one request of the sequence is in flight, that of the last call,
\* and a request for page n is sent only after every page before n has been
\* fetched and parsed by an earlier call
C33_OneAtATime ==
    /\ Cardinality(Pending) <= 1
    /\ Pending \subseteq {Len(log)}
    /\ (inflight # None) <=> (Pending # {})
    /\ (pc = "awaiting") <=> (Pending # {})
    /\ inflight # None => (net # <<>> /\ inflight = Some(net[Len(net)]))
    /\ Len(net) = Cardinality(Sent)
    /\ \A i \in Sent :
          /\ \A m \in 1 .. (log[i].page - 1) : \E j \in 1 .. (i - 1) : Completed(j, m)
          /\ \A j \in Sent : j < i => log[j].page <= log[i].page

C33_Witness ==
    /\ Len(log) = 3
    /\ Completed(1, 1) /\ Completed(2, 2)
    /\ log[3].page = 3 /\ log[3].outcome = "pending"
    /\ pc = "awaiting"
    /\ Len(net) = 3

\* C32: every wrap call of a sequence is given the session value that the
\* sequence was created with; what an earlier wrap call did with the value
\* it was given does not show in the value a later call is given
C32_SessionAsSupplied ==
    \A i \in Calls :
        log[i].seen # None =>
            Unwrap(log[i].seen) = SessionSeen(Unwrap(session), SessionTableNew)

(***************************************************************************)
(* Properties of SchemaInfo::from_str, stated on how the text was written. *)
(***************************************************************************)
Loaded == info # None
Result == Unwrap(info).result
Required == {RequiredNames[k] : k \in 1 .. Len(RequiredNames)}
\* the extra line stands in the header (before its end)
ExtraInHeader == shape.kind # "none" /\ shape.place \in {"first", "last"}
\* every line of the header is a field line with one of the six names
WellFormedHeader == ExtraInHeader => shape.kind \in {"id_not_uuid", "id_other", "name_other"}
\* what the header's lines are is known from how it was written (a line
\* without its line ending runs into the text that follows it)
KnownLines == ~(ExtraInHeader /\ shape.kind = "no_eol")
\* the header has a line for required field f
HasField(f) ==
    \/ f \in shape.present
    \/ f = N_id /\ ExtraInHeader /\ shape.kind \in {"id_not_uuid", "id_other"}
    \/ f = N_name /\ ExtraInHeader /\ shape.kind = "name_other"
MissingFields == {f \in Required : ~HasField(f)}
\* the value of the last id line of the header
LastIdValue ==
    IF ExtraInHeader /\ shape.kind = "id_not_uuid" /\ (shape.place = "last" \/ N_id \notin shape.present)
    THEN NotUuid
    ELSE IF ExtraInHeader /\ shape.kind = "id_other" /\ (shape.place = "last" \/ N_id \notin shape.present)
    THEN UuidOther
    ELSE shape.idv
\* the UUID a well-formed id value denotes: 32 digits in lower case
UuidCanonical ==
    <<"1", "9", "8", "c", "a", "1", "5", "3", "c", "c", "a", "e", "4", "f", "8", "2",
      "9", "2", "1", "8", "9", "b", "6", "6", "5", "7", "7", "9", "6", "b", "5", "7">>
LastIdIsUuid == LastIdValue # NotUuid
LastIdUuid == IF LastIdValue = UuidOther THEN UuidOther ELSE UuidCanonical
\* the first required field, in the order of from_str, that the header lacks
FirstMissing == RequiredNames[CHOOSE k \in 1 .. Len(RequiredNames) :
                    /\ ~HasField(RequiredNames[k])
                    /\ \A j \in 1 .. (k - 1) : HasField(RequiredNames[j])]

\* C8: a header with a field line of an unrecognized name before its end
\* fails to load: no SchemaInfo is produced, the field is not ignored.  When
\* the other lines are field lines, the failure is the unknown-field error
\* naming that field.
C8_UnknownFieldFails ==
    (Loaded /\ ExtraInHeader /\ shape.kind = "unknown") =>
        /\ ~Result.ok
        /\ Result.err = ScriptParseError("unknown field in the script", N_unknown)

C8_Witness ==
    /\ Loaded /\ shape.kind = "unknown" /\ shape.place = "last"
    /\ shape.present = Required /\ shape.idv = UuidHyphenated /\ shape.blank
    /\ ~Result.ok

\* C9 as stated: for every required field the header lacks, parsing fails
\* with the missing-field error naming that field.
C9_Original ==
    (Loaded /\ WellFormedHeader) =>
        \A f \in MissingFields :
            ~Result.ok /\ Result.err = ScriptParseError("missing field", f)

\* C9 amended: a header that lacks a required field fails to load; when all
\* its lines are recognized field lines, the error is the missing-field error
\* naming the first field it lacks in the order id, name, author, description,
\* lh-version, unless its id is present and is no UUID, and then it is the
\* UUID error.
C9_MissingFieldFails ==
    (Loaded /\ MissingFields # {}) =>
        /\ ~Result.ok
        /\ WellFormedHeader =>
             IF HasField(N_id) /\ ~LastIdIsUuid
             THEN Result.err.kind = "uuid"
             ELSE Result.err = ScriptParseError("missing field", FirstMissing)

C9_Witness ==
    /\ Loaded /\ shape.kind = "none"
    /\ shape.present = Required \ {N_author, N_lh_version}
    /\ shape.idv = UuidHyphenated
    /\ Result = Err(ScriptParseError("missing field", N_author))

FieldRec(fname, value) == [name |-> fname, value |-> value]
ExtraField ==
    CASE shape.kind = "id_not_uuid" -> <<FieldRec(N_id, NotUuid)>>
      [] shape.kind = "id_other" -> <<FieldRec(N_id, UuidOther)>>
      [] shape.kind = "name_other" -> <<FieldRec(N_name, V_other_name)>>
      [] OTHER -> <<>>
HeaderFields ==
    Cat(<<IF ExtraInHeader /\ shape.place = "first" THEN ExtraField ELSE <<>>,
          Cat([k \in 1 .. Len(RequiredNames) |->
                 IF RequiredNames[k] \in shape.present
                 THEN <<FieldRec(RequiredNames[k], RequiredValue(RequiredNames[k], shape.idv))>>
                 ELSE <<>>]),
          [k \in 1 .. shape.nd |-> FieldRec(N_legal_domains, DomainValue(k))],
          IF ExtraInHeader /\ shape.place = "last" THEN ExtraField ELSE <<>>>>)
\* the text that follows the line that ends the header
AfterHeader ==
    IF shape.blank
    THEN (IF shape.place = "after_blank"
          THEN ExtraLine(shape.kind, shape.pad, shape.eol) ELSE <<>>) \o ScriptBody
    ELSE <<>>
\* the value of the last name line of the header
LastNameValue ==
    IF ExtraInHeader /\ shape.kind = "name_other" /\ (shape.place = "last" \/ N_name \notin shape.present)
    THEN V_other_name
    ELSE V_name

\* C11: a SchemaInfo obtained from a header, written back as field lines (one
\* per legal domain, in any order of the domains, forwards or backwards)
\* followed by a blank line, parses to a SchemaInfo equal to it in id, name,
\* author, description, version and legal_domains.
C11_RoundTrip ==
    again # None =>
        /\ Unwrap(again).result.ok
        /\ Unwrap(again).result.v = Result.v

C11_Witness ==
    /\ again # None /\ Unwrap(again).rev
    /\ shape.idv = UuidSimpleUpper /\ shape.pad = 1
    /\ Cardinality(Result.v.legal_domains) = 2
    /\ Unwrap(again).result.ok
    /\ Unwrap(again).result.v.id = UuidCanonical

\* C12: scanning stops at the first blank or whitespace-only line, or at the
\* end of the input: for a header of recognized field lines the fields read
\* are exactly those lines, the text after the blank line (a field line, an
\* unknown field, a line that is no header line, the script body) is left
\* unread, and the outcome depends on the header's lines alone.
C12_StopsAtBlank ==
    (Loaded /\ WellFormedHeader) =>
        /\ Unwrap(info).fields = HeaderFields
        /\ Unwrap(info).rest = AfterHeader
        /\ Result.ok <=> (MissingFields = {} /\ LastIdIsUuid)
        /\ ~Result.ok => Result.err.kind \in {"missing field", "uuid"}

C12_Witness ==
    /\ Loaded /\ shape.place = "after_blank" /\ shape.kind = "unknown"
    /\ shape.present = Required /\ shape.idv = UuidHyphenated /\ shape.nd = 1
    /\ Result.ok
    /\ Len(Unwrap(info).fields) = 6
    /\ Unwrap(info).rest # <<>>

\* C13: a line reached by the scan that is neither a field line ended by a
\* line ending nor a blank line makes parsing fail with the parser's fault, the
\* scan standing at that line; a field line that ends the input without a line
\* ending is such a line, and is not read as a field.
C13_MalformedLineFaults ==
    /\ (Loaded /\ ExtraInHeader /\ shape.kind = "not_a_line") =>
          /\ Result = Err(ScriptParseError("nom", <<>>))
          /\ Take(Unwrap(info).rest, Len(ScriptBody)) = ScriptBody
    /\ (Loaded /\ ExtraInHeader /\ shape.kind = "no_eol" /\ shape.place = "last" /\ ~shape.blank) =>
          /\ Result = Err(ScriptParseError("nom", <<>>))
          /\ Unwrap(info).rest = ExtraLine(shape.kind, shape.pad, shape.eol)
          /\ Len(Unwrap(info).fields) = Cardinality(shape.present) + shape.nd

C13_Witness ==
    /\ Loaded /\ shape.kind = "no_eol" /\ shape.place = "last" /\ ~shape.blank
    /\ shape.present = Required /\ shape.idv = UuidHyphenated /\ shape.nd = 1
    /\ ~Result.ok
    /\ Len(Unwrap(info).fields) = 6

\* C14: in a header of recognized field lines that has every required field,
\* repeated lines are no error: legal_domains is the set of all legal-domains
\* values written (a value written twice is in it once), and name and id are
\* the values of their last lines (an earlier id that is no UUID does not
\* matter); the fields written once are as written.
C14_RepeatedFields ==
    (Loaded /\ WellFormedHeader /\ MissingFields = {} /\ LastIdIsUuid) =>
        /\ Result.ok
        /\ Result.v.legal_domains = {DomainValue(k) : k \in 1 .. shape.nd}
        /\ Cardinality(Result.v.legal_domains) <= Len(DomainValues)
        /\ Result.v.name = LastNameValue
        /\ Result.v.id = LastIdUuid
        /\ Result.v.author = V_author
        /\ Result.v.description = V_description
        /\ Result.v.lh_version = V_lh_version

C14_Witness ==
    /\ Loaded /\ shape.kind = "name_other" /\ shape.place = "last"
    /\ shape.present = Required /\ shape.nd = 3
    /\ Result.ok
    /\ Result.v.name = V_other_name
    /\ Cardinality(Result.v.legal_domains) = 2

(***************************************************************************)
(* Properties of the Runtime, stated on the history of the scripts' steps. *)
(***************************************************************************)
Requires == {i \in 1 .. Len(rlog) : rlog[i].op = "require"}
Assigns == {i \in 1 .. Len(rlog) : rlog[i].op = "assign"}
\* the names of the scripts, as written
CapJson == <<"@", "j", "s", "o", "n">>
CapZip == <<"@", "z", "i", "p">>
BareJson == <<"j", "s", "o", "n">>
\* the Lua state that require call i left
LaterRequires(i) == {j \in Requires : j > i}
LuaAfter(i) ==
    IF LaterRequires(i) = {} THEN lua
    ELSE rlog[CHOOSE j \in LaterRequires(i) : \A k \in LaterRequires(i) : j <= k].before

C16_ModuleNotFound ==
    /\ \A i \in Requires :
          rlog[i].name = CapZip =>
              /\ rlog[i].result = Err(RuntimeError("module not found", CapZip))
              /\ LuaAfter(i) = rlog[i].before
    /\ DOMAIN lua.loaded \subseteq {CapJson}

C16_Witness ==
    \E i \in Requires :
        /\ rlog[i].name = CapZip /\ ~rlog[i].result.ok
        /\ DOMAIN rlog[i].before.loaded = {CapJson}
        /\ lua = rlog[i].before

C18_FreshPerEnvironment ==
    \A i, j \in Requires :
        (/\ i < j /\ rlog[i].env # rlog[j].env
         /\ rlog[i].name = CapJson /\ rlog[j].name = CapJson
         /\ rlog[i].result.ok /\ rlog[j].result.ok) =>
            rlog[j].result.v # rlog[i].result.v

\* C19: every load has its own environment, which is read-only and holds
\* the engine's require: every assignment of a global by a script fails and
\* leaves the environment as it was, and every require call of a script is
\* answered by environment_require.
C19_ReadOnlyEnvironment ==
    /\ \A e \in 1 .. Len(envs) :
          /\ envs[e].env.readonly
          /\ envs[e].env.table = ("require" :> LuaFunction("environment_require"))
    /\ \A i \in Assigns : ~rlog[i].ok
    /\ \A i \in Requires : rlog[i].via = "environment_require"
    /\ Cardinality(Evaluating) <= 1
    /\ Evaluating # {} => Evaluating = {Len(envs)}
    /\ last_load # None => (Unwrap(last_load).env = Len(envs) /\ Evaluating = {})

C19_Witness ==
    \E i \in Assigns, j \in Requires :
        /\ i < j /\ rlog[i].env = rlog[j].env /\ rlog[i].env = 2
        /\ rlog[i].name = "require" /\ ~rlog[i].ok
        /\ rlog[j].name = CapJson /\ rlog[j].result.ok

\* C20: load returns a Schema exactly when the chunk returned a table, the
\* header parsed, the four required commands were bound and the session
\* command, if the table has one, was bound; the Schema is then complete.  In
\* every other case load returns an error, which carries no Schema.
LoadedOk(l) ==
    /\ l.code.eval = "table"
    /\ l.source = ValidSource
    /\ l.code.bad = "none" \/ (l.code.bad = "session" /\ l.code.how = "absent")
TwoFunctions == [f \in {"page", "parse"} |-> LuaFunction(f)]
C20_LoadAllOrNothing ==
    last_load # None =>
        LET l == Unwrap(last_load) IN
        /\ l.result.ok <=> LoadedOk(l)
        /\ l.result.ok =>
              /\ DOMAIN l.result.v = {"schema_info", "book_search", "book_info",
                                      "book_chapter", "book_toc", "session"}
              /\ l.result.v.schema_info.id = UuidCanonical
              /\ l.result.v.schema_info.lh_version = V_lh_version
              /\ l.result.v.book_search = TwoFunctions
              /\ l.result.v.book_info = TwoFunctions
              /\ l.result.v.book_chapter = TwoFunctions
              /\ l.result.v.book_toc = TwoFunctions
              /\ l.result.v.session # None <=> l.code.bad = "none"
        /\ ~l.result.ok =>
              /\ DOMAIN l.result = {"ok", "err"}
              /\ envs[l.env].state = "dropped"

C20_Witness ==
    /\ last_load # None
    /\ Unwrap(last_load).source = ValidSource
    /\ Unwrap(last_load).code = [eval |-> "table", bad |-> "toc", how |-> "absent"]
    /\ ~Unwrap(last_load).result.ok
    /\ Len(rlog) > 0


\* C21: a record without a session field loads, with no session binding;
\* a record in which search, book_info, chapter or toc is absent, or has no
\* page or no parse function, does not load; a record whose session field is
\* present but has no page, no parse or no wrap function does not load
ThreeFunctions == [f \in {"page", "parse", "wrap"} |-> LuaFunction(f)]
C21_CommandsRequired ==
    (last_load # None /\ Unwrap(last_load).code.eval = "table"
        /\ Unwrap(last_load).source = ValidSource) =>
        LET l == Unwrap(last_load) IN
        /\ (l.code.bad = "session" /\ l.code.how = "absent") =>
              (l.result.ok /\ l.result.v.session = None)
        /\ l.code.bad \in {"search", "book_info", "chapter", "toc"} =>
              (~l.result.ok /\ l.result.err = LuaError("conversion"))
        /\ (l.code.bad = "session" /\ l.code.how # "absent") =>
              (~l.result.ok /\ l.result.err = LuaError("conversion"))
        /\ l.code.bad = "none" =>
              (l.result.ok /\ l.result.v.session = Some(ThreeFunctions))

C21_Witness ==
    /\ last_load # None
    /\ Unwrap(last_load).source = ValidSource
    /\ Unwrap(last_load).code = [eval |-> "table", bad |-> "session", how |-> "no_wrap"]
    /\ ~Unwrap(last_load).result.ok
    /\ \E e \in 1 .. Len(envs) : envs[e].state = "loaded"


(***************************************************************************)
(* Properties of a page's item sequence.                                   *)
(***************************************************************************)
Advances == 1 .. Len(yields)
\* the producer's outcome on its i-th invocation
Outcome(i) == producer[i]
ThrewAt(i) == ~Outcome(i).ok
NilAt(i) == Outcome(i).ok /\ Outcome(i).v = LuaNil
ItemAt(i) == Outcome(i).ok /\ Outcome(i).v # LuaNil /\ ItemFromLua(yields[i].iter, Outcome(i).v).ok
Unconvertible(i) ==
    Outcome(i).ok /\ Outcome(i).v # LuaNil /\ ~ItemFromLua(yields[i].iter, Outcome(i).v).ok
\* the item an advance handed to the caller, if it handed one
ItemYielded(y) ==
    IF y.result = None THEN None
    ELSE IF y.iter \in ResultIters
    THEN (IF Unwrap(y.result).ok THEN Some(Unwrap(y.result).v) ELSE None)
    ELSE y.result
ErrorYielded(y) == y.iter \in ResultIters /\ y.result # None /\ ~Unwrap(y.result).ok
\* the item says what the table the producer returned says
SameAsTable(item, iter, f) ==
    IF iter = "ParagraphIter"
    THEN item.content = f["content"].s
         /\ item.variant = (IF f["type"].s = "text" THEN "Text" ELSE "Image")
    ELSE \A k \in RequiredFields(iter) \ {"tags"} : item[k] = f[k].s

\* C22: every advance of an item sequence invokes the producer exactly once,
\* the i-th advance being the i-th invocation (nothing is fetched ahead or
\* kept back); when the producer returns an item, that item is what the
\* advance yields, and when it returns nil the advance is the end of sequence
C22_OneCallPerAdvance ==
    /\ produced = Len(yields)
    /\ \A i \in Advances :
          /\ yields[i].before = i - 1
          /\ yields[i].after = i
          /\ NilAt(i) => yields[i].result = None
          /\ ItemAt(i) =>
                /\ ItemYielded(yields[i]) # None
                /\ SameAsTable(Unwrap(ItemYielded(yields[i])), yields[i].iter, Outcome(i).v.f)

C22_Witness ==
    /\ Len(yields) = 3
    /\ item_iter = Some("TocItemIter")
    /\ ItemAt(1) /\ ItemAt(2) /\ NilAt(3)
    /\ Outcome(1) # Outcome(2)
    /\ yields[3].result = None

\* C23: in the sequences whose items are results, a fault thrown by the
\* producer is terminal: the advance on which it is thrown yields an error
\* and every later advance is the end of sequence
C23_FaultIsTerminal ==
    \A i \in Advances :
        (yields[i].iter \in ResultIters /\ ThrewAt(i)) =>
            /\ ErrorYielded(yields[i])
            /\ \A j \in Advances : j > i => yields[j].result = None

\* C24: for search, chapter and toc, an advance on which the producer
\* throws, or returns a value that does not convert to the item record,
\* yields an error item, never the end of sequence
C24_FaultIsSurfaced ==
    \A i \in Advances :
        (ThrewAt(i) \/ Unconvertible(i)) =>
            (yields[i].result # None /\ ErrorYielded(yields[i]))


(***************************************************************************)
(* Properties of book_info.                                                *)
(***************************************************************************)
BookReturned == book_result # None
StepNames == [i \in 1 .. Len(book_trace) |-> book_trace[i].step]
\* the record says what the table returned by the script's parse says
SameAsParsed(book, value) ==
    /\ DOMAIN book = BookInfoFields
    /\ \A k \in BookInfoFields : book[k] = value.f[k].s
\* the call ended at the page step, at the request, at the response, at parse
EndedAtPage ==
    /\ StepNames = <<"page">>
    /\ ~book_trace[1].result.ok
    /\ book_result = Some(book_trace[1].result)
    /\ net = <<>>
EndedAtRequest ==
    /\ StepNames = <<"page", "request">>
    /\ book_trace[1].result.ok
    /\ book_trace[2].request = book_trace[1].result.v
    /\ book_trace[2].check \in {"InvalidUrl", "NotAllowedDomain"}
    /\ book_result = Some(Err(book_trace[2].check))
    /\ net = <<>>
EndedAtResponse ==
    /\ StepNames = <<"page", "request", "response">>
    /\ book_trace[1].result.ok
    /\ book_trace[2].request = book_trace[1].result.v
    /\ book_trace[2].check = "send"
    /\ net = <<book_trace[2].request>>
    /\ ~book_trace[3].response.ok
    /\ book_result = Some(book_trace[3].response)
EndedAtParse ==
    /\ StepNames = <<"page", "request", "response", "parse">>
    /\ book_trace[1].result.ok
    /\ book_trace[2].request = book_trace[1].result.v
    /\ book_trace[2].check = "send"
    /\ net = <<book_trace[2].request>>
    /\ book_trace[3].response.ok
    /\ book_trace[4].content = book_trace[3].response.v
    /\ IF ~book_trace[4].ret.ok
       THEN book_result = Some(Err(book_trace[4].ret.err))
       ELSE IF Unwrap(book_result).ok
       THEN SameAsParsed(Unwrap(book_result).v, book_trace[4].ret.v)
       ELSE DOMAIN book_trace[4].ret.v.f # BookInfoFields

\* C25: a book_info call makes one page call with the id (wrapped with the
\* session when there is one), then one HTTP request with the request that
\* call returned, then one parse call on the response, and returns the
\* record parse returned; a step that fails ends the call with its failure
\* and none of the later steps is taken
C25_BookInfoSteps ==
    /\ book_trace # <<>> =>
          /\ book_trace[1].id \in Ids
          /\ ~BookReturned =>
                (pc = "awaiting" /\ StepNames = <<"page", "request">>
                   /\ book_trace[2].request = book_trace[1].result.v
                   /\ net = <<book_trace[2].request>>)
    /\ BookReturned => (EndedAtPage \/ EndedAtRequest \/ EndedAtResponse \/ EndedAtParse)
    /\ BookReturned => pc = "idle"

C25_Witness ==
    /\ BookReturned
    /\ EndedAtParse
    /\ Unwrap(book_result).ok
    /\ Len(book_trace[1].wraps) = 1
    /\ book_trace[1].result.v # book_trace[1].base.v
    /\ Unwrap(book_result).v["intro"] = "t2"


\* what the script's page callable returned for the call under way
PageReturned == ScriptBookPage(book_script.page, book_script.host, book_trace[1].id)
\* C28: a bare URL string returned by a page callable is the request with
\* that URL, method GET, no headers and an empty body; a record is a request
\* only when it has a url, and the method, headers and body it does not
\* give are GET, none and empty
C28_RequestDefaults ==
    (book_trace # <<>> /\ PageReturned.ok) =>
        LET v == PageReturned.v
            base == book_trace[1].base
        IN /\ v.t = "string" =>
                base = Ok([url |-> v.s, method |-> "GET", headers |-> <<>>, body |-> <<>>])
           /\ (v.t = "table" /\ "url" \notin DOMAIN v.f) => ~base.ok
           /\ (v.t = "table" /\ "url" \in DOMAIN v.f) =>
                /\ base.ok
                /\ base.v.url = v.f["url"]
                /\ base.v.method = (IF "method" \in DOMAIN v.f THEN v.f["method"] ELSE "GET")
                /\ base.v.headers = (IF "headers" \in DOMAIN v.f THEN v.f["headers"] ELSE <<>>)
                /\ base.v.body = (IF "body" \in DOMAIN v.f THEN v.f["body"] ELSE <<>>)

C28_Witness ==
    /\ book_trace # <<>>
    /\ book_script.page = "url_only"
    /\ book_trace[1].base.ok
    /\ book_trace[1].wraps = <<>>
    /\ Len(net) = 1
    /\ net[1].method = "GET"
    /\ net[1].body = <<>>


\* the require calls made by the script of environment e
RequiresOf(e) == {i \in Requires : rlog[i].env = e}
\* C34: the script body is evaluated before the header is parsed: the
\* script of a text whose header is invalid runs in its environment (its
\* require calls are answered as for any script) and the load fails; when
\* the evaluation fails as well, the error of the load is the evaluation's,
\* and the header's error is returned only when the chunk evaluated to a table
C34_EvalBeforeHeader ==
    (last_load # None /\ Unwrap(last_load).source = InvalidSource) =>
        LET l == Unwrap(last_load) IN
        /\ ~l.result.ok
        /\ l.code.eval = "throws" => l.result.err = LuaError("runtime")
        /\ l.code.eval = "nil" => l.result.err = LuaError("conversion")
        /\ l.code.eval = "table" => l.result.err.variant = "ScriptParseError"
        /\ \A i \in RequiresOf(l.env) :
              /\ rlog[i].via = "environment_require"
              /\ rlog[i].name = CapJson => rlog[i].result.ok

C34_Witness ==
    /\ last_load # None
    /\ Unwrap(last_load).source = InvalidSource
    /\ Unwrap(last_load).code.eval = "throws"
    /\ Unwrap(last_load).result = Err(LuaError("runtime"))
    /\ \E i \in RequiresOf(Unwrap(last_load).env) :
          /\ rlog[i].name = CapJson
          /\ rlog[i].result.ok
          /\ CapJson \notin DOMAIN rlog[i].before.loaded
    /\ CapJson \in DOMAIN lua.loaded

\* C38: every entry of the capability cache has a key that is '@' followed
\* by a name of the registry, and a value that is an instance constructed by
\* the package of that name, one of the instances constructed so far
C38_CacheHoldsCapabilities ==
    \A name \in DOMAIN lua.loaded :
        /\ StartsWithAt(name)
        /\ Tail(name) \in RUNTIME_PACKAGES
        /\ lua.loaded[name].t = "userdata"
        /\ lua.loaded[name].package = Tail(name)
        /\ lua.loaded[name].id \in 1 .. lua.made

C38_Witness ==
    /\ DOMAIN lua.loaded = {CapJson}
    /\ \E i, j, k \in Requires :
          /\ rlog[i].name = CapZip
          /\ rlog[j].name = BareJson
          /\ rlog[k].name = CapJson /\ rlog[k].result.ok


\* C36: when book_info's page callable returns nil, page fails: it is not
\* taken as "no request"; book_info returns that error, wrap is not called,
\* nothing is handed to the HTTP client and parse is not called
C36_NilPageFails ==
    (book_trace # <<>> /\ PageReturned = Ok(LuaNil)) =>
        /\ book_trace[1].base = Err("LuaError")
        /\ book_trace[1].wraps = <<>>
        /\ StepNames = <<"page">>
        /\ book_result = Some(Err("LuaError"))
        /\ net = <<>>
        /\ pc = "idle"

C36_Witness ==
    /\ book_script.page = "nil"
    /\ book_script.host \in allowed_domains
    /\ session_command = Some("append")
    /\ session # None
    /\ book_result # None
    /\ ~Unwrap(book_result).ok
    /\ Len(book_trace) = 1

(***************************************************************************)
(* Properties of the session wrapper under both kinds of fetch, stated on  *)
(* what the script's wrap returned.                                        *)
(***************************************************************************)
\* the one wrap call of a page call, when it made one
Wrapped(e) == Len(e.wraps) = 1
\* wrap returned a value that is a request: a string or a table with a url
ReturnsRequest(w) ==
    /\ w.ret.ok
    /\ \/ w.ret.v.t = "string"
       \/ (w.ret.v.t = "table" /\ "url" \in DOMAIN w.ret.v.f)
\* the URL of the request wrap returned
WrapUrl(w) == IF w.ret.v.t = "string" THEN w.ret.v.s ELSE w.ret.v.f["url"]
WrappedOutside(w) == ReturnsRequest(w) /\ WrapUrl(w).host \in Domains \ allowed_domains
WrappedInside(w) == ReturnsRequest(w) /\ WrapUrl(w).host \in allowed_domains
\* the book_info call got as far as the network
BookSent == Len(book_trace) >= 2 /\ book_trace[2].check = "send"
BookRequests == IF BookSent THEN {book_trace[2].request} ELSE {}

\* C31: the allow-list is applied to the request that wrap returned, in
\* book_info and in every next_page: when wrap returns a request for a
\* domain outside the allow-list the call returns domain-not-allowed and
\* sends nothing, and a wrapped call that sends was allowed by the URL wrap
\* returned
C31_CheckAfterWrap ==
    /\ \A i \in Calls :
         Wrapped(log[i]) =>
            /\ WrappedOutside(log[i].wraps[1]) =>
                  /\ log[i].http = "NotAllowedDomain"
                  /\ log[i].returned = Some(Err("NotAllowedDomain"))
                  /\ log[i].response = None
            /\ log[i].http = "sent" => WrappedInside(log[i].wraps[1])
    /\ (book_trace # <<>> /\ Wrapped(book_trace[1])) =>
            /\ WrappedOutside(book_trace[1].wraps[1]) =>
                  /\ StepNames = <<"page", "request">>
                  /\ book_trace[2].check = "NotAllowedDomain"
                  /\ book_result = Some(Err("NotAllowedDomain"))
            /\ BookSent => WrappedInside(book_trace[1].wraps[1])
    /\ Len(net) = Cardinality(Sent) + Cardinality(BookRequests)
    /\ \A n \in 1 .. Len(net) :
         net[n] \in {Unwrap(log[i].request.v) : i \in Sent} \cup BookRequests

C31_Witness ==
    /\ allowed_domains = {"a.com"}
    /\ session_command = Some("to_b")
    /\ Len(log) = 2
    /\ \A i \in Calls : log[i].base = Ok(Some(HttpRequest(Url("a.com"), "GET", NoHeaders, <<>>)))
    /\ \A i \in Calls : log[i].returned = Some(Err("NotAllowedDomain"))
    /\ book_trace # <<>>
    /\ book_trace[1].base.ok /\ book_trace[1].base.v.url.host = "a.com"
    /\ book_result = Some(Err("NotAllowedDomain"))
    /\ net = <<>>

\* the failure a page call returns when its wrap call failed
WrapFailure(w) == Err(IF w.ret.ok THEN "LuaError" ELSE w.ret.err)
FailedWraps == {i \in Calls : Wrapped(log[i]) /\ ~ReturnsRequest(log[i].wraps[1])}
BookWrapFailed ==
    book_trace # <<>> /\ Wrapped(book_trace[1]) /\ ~ReturnsRequest(book_trace[1].wraps[1])

\* C35: when wrap throws or returns a value that is not a request, the page
\* call fails with that failure, next_page and book_info return it, and no
\* HTTP request is made for the call: the unwrapped request is not sent
C35_WrapFaultReturned ==
    /\ \A i \in FailedWraps :
         /\ log[i].request = WrapFailure(log[i].wraps[1])
         /\ log[i].outcome = "error"
         /\ log[i].returned = Some(WrapFailure(log[i].wraps[1]))
         /\ log[i].http = "none"
         /\ log[i].response = None
         /\ log[i].parse = None
    /\ BookWrapFailed =>
         /\ StepNames = <<"page">>
         /\ book_trace[1].result = WrapFailure(book_trace[1].wraps[1])
         /\ book_result = Some(WrapFailure(book_trace[1].wraps[1]))
    /\ Len(net) = Cardinality(Sent \ FailedWraps)
                     + (IF BookWrapFailed THEN 0 ELSE Cardinality(BookRequests))

C35_Witness ==
    /\ allowed_domains = {"a.com"}
    /\ session_command = Some("nil")
    /\ Len(log) = 2
    /\ FailedWraps = {1, 2}
    /\ \A i \in Calls : log[i].base = Ok(Some(HttpRequest(Url("a.com"), "GET", NoHeaders, <<>>)))
    /\ \A i \in Calls : log[i].returned = Some(Err("LuaError"))
    /\ BookWrapFailed
    /\ book_trace[1].base.ok /\ book_trace[1].base.v.url.host = "a.com"
    /\ book_result = Some(Err("LuaError"))
    /\ net = <<>>

====
